---- MODULE Spec2Model ----
(***************************************************************************)
(* Model of the token provider (src/src/providers/token.ts): the two-tier  *)
(* cache, the retrying fetcher, the holder aggregator and the report       *)
(* pipeline; and of the Twitter interaction client (src/unnamed/part_001). *)
(* Each part has its own specification over the shared                     *)
(* variables; the parts a specification does not use stay at their initial *)
(* values.                                                                 *)
(***************************************************************************)
EXTENDS Integers, Sequences, FiniteSets, TLC

VARIABLES
  now,        \* Date.now(), in ms
  cache,      \* cache[p][k]: the NodeCache of provider instance p
  files,      \* files[k]: content of <cacheDir>/<k>.json, shared by all instances
  lastSet,    \* history: lastSet[k] = the most recent setCachedData of key k
  fresh,      \* history: fresh[p][k] = p's memory entry was written by or after lastSet[k]
  got,        \* history: the getCachedData call just made and what it returned
  settings,   \* settings.BIRDEYE_API_KEY
  retry,      \* the fetchWithRetry call in progress: its locals, its position
              \* (pc), its outcome (ret) and, as history, one record per fetch()
              \* call made (log) and the delays waited (delays)

  report,     \* the getFormattedTokenReport call in progress: its position (pc),
              \* the data fetched so far, its outcome (ret) and, as history, what
              \* became of each sub-fetch (fetches)
  returned,   \* history, kept under SpecRepeat: returned[k] = the last time
              \* sub-fetch k of a report returned normally after a cache miss,
              \* and what it returned
  upstream,   \* under SpecFixture: the answer the upstream gives to each kind
              \* of request, the same all along; elsewhere any answer at any time
  reported,   \* history, kept under SpecFixture: the text of the first report
  twitter,    \* under SpecTwitter: the Twitter interaction client and the
              \* timeline it polls: the tweets posted so far (tweets), the
              \* client's lastCheckedTweetId, the handleTwitterInteractions run
              \* in progress (run), the handleTweet call in progress or just
              \* over (call: its locals and, as history, the completion
              \* requests it made, those of the generation loop (generated),
              \* the answers to them that did not parse (unparsed) and
              \* whether it called sendTweet) and, as history, the tweets
              \* a handleTweet call has returned for in the run in progress or
              \* just over (handled) and in the runs before it (handledEarlier) and
              \* the tweets sendTweet was called for (sendCalls)
  calls,      \* under SpecConcurrent: calls[c] = the fetchTokenSecurity call c in
              \* progress: the provider it runs on (by), its position (pc), its
              \* outcome (ret) and, as history, whether it missed the cache and
              \* what it wrote to it
  holder,     \* the fetchHolderList call in progress: its locals, its position
              \* (pc), its outcome (ret) and, as history, one record per
              \* holder-accounts request made (log)
  analytics   \* the call of an analytics function in progress: the function
              \* (op), its arguments, its position (pc) and its outcome (ret)

histVars == <<lastSet, fresh, got>>
cacheVars == <<now, cache, files, histVars>>
retryVars == <<settings, retry>>
holderVars == <<holder>>
reportVars == <<report, returned, upstream, reported, calls, twitter>>
analyticsVars == <<analytics>>
vars == <<cacheVars, retryVars, holderVars, reportVars, analyticsVars>>

----------------------------------------------------------------------------
(* JavaScript values.  Every value is a record with a "type" field, so any  *)
(* two values can be compared.                                              *)

Null == [type |-> "null"]
Undefined == [type |-> "undefined"]
\* A number is a double: here the integers hi * 2^53 + n with small hi and n.
\* Num(n) is the small integer n.
Dbl(hi, n) == [type |-> "number", hi |-> hi, n |-> n]
Num(n) == Dbl(0, n)
Arr(items) == [type |-> "array", items |-> items]
Str(x) == [type |-> "string", s |-> x]
\* An Error; the message is a tuple of strings.
Err(m) == [type |-> "error", message |-> m]
Obj(props) == [type |-> "object", props |-> props]

\* `if (x)`: null, undefined, 0 and "" are falsy; every object and array is truthy.
Truthy(x) == /\ x.type \notin {"null", "undefined"}
             /\ (x.type = "number" => (x.hi # 0 \/ x.n # 0))
             /\ (x.type = "string" => x.s # "")

\* obj.f : an absent property reads as undefined.
Prop(x, f) == IF x.type = "object" /\ f \in DOMAIN x.props THEN x.props[f] ELSE Undefined

\* Two values no read can tell apart.
SameValue(x, y) ==
  IF x.type = "object" /\ y.type = "object"
  THEN \A f \in (DOMAIN x.props) \cup (DOMAIN y.props) : Prop(x, f) = Prop(y, f)
  ELSE x = y

\* JSON.stringify of a value: properties whose value is undefined are dropped.
\* The text is modelled by the value JSON.parse gives back for it.
JSONstringifyObject(x) ==
  IF x.type = "object"
  THEN Obj([f \in {g \in DOMAIN x.props : x.props[g] # Undefined} |-> x.props[f]])
  ELSE x

JSONstringify(x) ==
  IF x.type = "array"
  THEN Arr([n \in 1..Len(x.items) |-> JSONstringifyObject(x.items[n])])
  ELSE JSONstringifyObject(x)

JSONparse(text) == text

----------------------------------------------------------------------------
(* Bounds of the cache model.                                               *)

ClockStepMs == 200000
MaxClockSteps == 5

Providers == {"p1", "p2"}
CacheKeys == {"tokenSecurity_A"}
CacheValues == { Obj([f \in {"ownerBalance"} |-> b]) : b \in {Undefined, Num(100), Num(200)} }

NoEntry == [type |-> "none"]
NoFile == [type |-> "nofile"]
\* Damaged states of the path of a key: a file whose content is not JSON; a
\* file with JSON that is no cache record (no expiry); no file, and none can
\* be written (read-only directory, full disk).
NotJSONFile == [type |-> "notjson"]
ForeignFile == [type |-> "foreign"]
Unwritable == [type |-> "unwritable"]
NoCall == [type |-> "nocall"]

----------------------------------------------------------------------------
(* NodeCache({ stdTTL: 300 }) : the memory tier.                            *)

stdTTL == 300

\* cache.set(key, value): the entry lives until now + stdTTL * 1000.
nodeCacheSet(c, k, v, t) == [c EXCEPT ![k] = [type |-> "entry", v |-> v, t |-> t + stdTTL * 1000]]

\* cache.get(key): an entry whose time t lies before now is deleted and
\* reported as undefined.
nodeCacheGet(c, k, t) ==
  IF c[k] = NoEntry THEN [ret |-> Undefined, c |-> c]
  ELSE IF c[k].t < t THEN [ret |-> Undefined, c |-> [c EXCEPT ![k] = NoEntry]]
  ELSE [ret |-> c[k].v, c |-> c]

----------------------------------------------------------------------------
(* The persistent tier: one file per key.                                   *)

FILE_TTL_MS == 300000

\* Mutant: an entry is still served at the instant of its expiry.
readCacheFromFile_servedAtExpiry(fs, k, t) ==
  IF fs[k] \in {NoFile, Unwritable}
  THEN [ret |-> Null, fs |-> fs, error |-> Null]
  ELSE IF fs[k] = NotJSONFile
  THEN [ret |-> Null, fs |-> fs, error |-> Err(<<"SyntaxError">>)]
  ELSE IF fs[k] = ForeignFile
  THEN [ret |-> Null, fs |-> [fs EXCEPT ![k] = NoFile], error |-> Null]
  ELSE LET parsed == JSONparse(fs[k]) IN
       IF t <= parsed.expiry
       THEN [ret |-> parsed.data, fs |-> fs, error |-> Null]
       ELSE [ret |-> Null, fs |-> [fs EXCEPT ![k] = NoFile], error |-> Null]

\* error is what the call throws, or Null.
readCacheFromFile(fs, k, t) ==
  IF fs[k] \in {NoFile, Unwritable}                 \* !fs.existsSync(filePath)
  THEN [ret |-> Null, fs |-> fs, error |-> Null]
  ELSE IF fs[k] = NotJSONFile                        \* JSON.parse throws
  THEN [ret |-> Null, fs |-> fs, error |-> Err(<<"SyntaxError">>)]
  ELSE IF fs[k] = ForeignFile                        \* now < undefined is false
  THEN [ret |-> Null, fs |-> [fs EXCEPT ![k] = NoFile], error |-> Null]
  ELSE LET parsed == JSONparse(fs[k]) IN
       IF t < parsed.expiry
       THEN [ret |-> parsed.data, fs |-> fs, error |-> Null]
       ELSE [ret |-> Null, fs |-> [fs EXCEPT ![k] = NoFile], error |-> Null]

\* Mutant: the expiry is computed with the TTL in seconds instead of ms.
writeCacheToFile_ttlInSeconds(fs, k, data, t) ==
  [fs |-> [fs EXCEPT ![k] = [type |-> "file", data |-> JSONstringify(data),
                             expiry |-> t + stdTTL]],
   error |-> Null]

\* Mutant: the write replaces the data of a file that exists and leaves its
\* expiry.
writeCacheToFile_keepsExpiry(fs, k, data, t) ==
  [fs |-> [fs EXCEPT ![k] = [type |-> "file", data |-> JSONstringify(data),
                             expiry |-> IF fs[k].type = "file" THEN fs[k].expiry
                                        ELSE t + FILE_TTL_MS]],
   error |-> Null]

\* error is what fs.writeFileSync throws, or Null.
writeCacheToFile(fs, k, data, t) ==
  IF fs[k] = Unwritable
  THEN [fs |-> fs, error |-> Err(<<"EACCES">>)]
  ELSE [fs |-> [fs EXCEPT ![k] = [type |-> "file", data |-> JSONstringify(data),
                                  expiry |-> t + FILE_TTL_MS]],
        error |-> Null]

----------------------------------------------------------------------------
(* The two-tier cache of one provider.                                      *)

\* Mutant: a value found in the persistent tier is returned without
\* this.cache.set.
getCachedData_noPromotion(c, fs, k, t) ==
  LET m == nodeCacheGet(c, k, t) IN
  IF Truthy(m.ret)
  THEN [ret |-> m.ret, c |-> m.c, fs |-> fs, tier |-> "memory", error |-> Null]
  ELSE LET f == readCacheFromFile(fs, k, t) IN
       IF Truthy(f.ret)
       THEN [ret |-> f.ret, c |-> m.c, fs |-> f.fs, tier |-> "file", error |-> Null]
       ELSE [ret |-> Null, c |-> m.c, fs |-> f.fs, tier |-> "none", error |-> f.error]

\* error is what the call throws, or Null.
getCachedData(c, fs, k, t) ==
  LET m == nodeCacheGet(c, k, t) IN
  IF Truthy(m.ret)
  THEN [ret |-> m.ret, c |-> m.c, fs |-> fs, tier |-> "memory", error |-> Null]
  ELSE LET f == readCacheFromFile(fs, k, t) IN
       IF Truthy(f.ret)
       THEN [ret |-> f.ret, c |-> nodeCacheSet(m.c, k, f.ret, t), fs |-> f.fs,
             tier |-> "file", error |-> Null]
       ELSE [ret |-> Null, c |-> m.c, fs |-> f.fs, tier |-> "none", error |-> f.error]

\* Mutant: a file that exists is left as it is.
setCachedData_keepsFile(c, fs, k, v, t) ==
  LET w == IF fs[k] = NoFile THEN writeCacheToFile(fs, k, v, t)
           ELSE [fs |-> fs, error |-> Null] IN
  [c |-> nodeCacheSet(c, k, v, t), fs |-> w.fs, error |-> w.error]

\* The memory tier is set before the file is written; error is what the
\* write throws, or Null.
setCachedData(c, fs, k, v, t) ==
  LET w == writeCacheToFile(fs, k, v, t) IN
  [c |-> nodeCacheSet(c, k, v, t), fs |-> w.fs, error |-> w.error]

----------------------------------------------------------------------------
(* The cache operations as steps of provider instances.                      *)

\* No provider holds anything and the cache directory is empty.
InitCacheOver(keys) ==
  /\ now = 0
  /\ cache = [p \in Providers |-> [k \in keys |-> NoEntry]]
  /\ files = [k \in keys |-> NoFile]
  /\ lastSet = [k \in keys |-> NoCall]
  /\ fresh = [p \in Providers |-> [k \in keys |-> FALSE]]
  /\ got = NoCall

InitCacheVars == InitCacheOver(CacheKeys)

\* The clock advances.
Tick ==
  /\ now < MaxClockSteps * ClockStepMs
  /\ now' = now + ClockStepMs
  /\ got' = NoCall
  /\ UNCHANGED <<cache, files, lastSet, fresh, retryVars, holderVars, reportVars, analyticsVars>>

\* new TokenProvider(tokenAddress): a new, empty NodeCache over the same directory.
NewProvider(p) ==
  /\ cache' = [cache EXCEPT ![p] = [k \in DOMAIN cache[p] |-> NoEntry]]
  /\ fresh' = [fresh EXCEPT ![p] = [k \in DOMAIN fresh[p] |-> FALSE]]
  /\ got' = NoCall
  /\ UNCHANGED <<now, files, lastSet, retryVars, holderVars, reportVars, analyticsVars>>

GetCachedData(p, k) ==
  LET r == getCachedData(cache[p], files, k, now) IN
  /\ cache' = [cache EXCEPT ![p] = r.c]
  /\ files' = r.fs
  /\ got' = [type |-> "get", by |-> p, key |-> k, at |-> now, ret |-> r.ret,
             tier |-> r.tier, set |-> lastSet[k],
             stale |-> (r.tier = "memory" /\ ~fresh[p][k])]
  /\ fresh' = [fresh EXCEPT ![p][k] = IF r.tier = "file" THEN TRUE ELSE @]
  /\ UNCHANGED <<now, lastSet, retryVars, holderVars, reportVars, analyticsVars>>

SetCachedData(p, k, v) ==
  LET r == setCachedData(cache[p], files, k, v, now) IN
  /\ cache' = [cache EXCEPT ![p] = r.c]
  /\ files' = r.fs
  /\ lastSet' = [lastSet EXCEPT ![k] = [type |-> "set", by |-> p, at |-> now, v |-> v]]
  /\ fresh' = [q \in Providers |-> [fresh[q] EXCEPT ![k] = (q = p)]]
  /\ got' = NoCall
  /\ UNCHANGED <<now, retryVars, holderVars, reportVars, analyticsVars>>

----------------------------------------------------------------------------
(* fetchWithRetry(url, options): the retrying fetcher.                      *)

MAX_RETRIES == 3
RETRY_DELAY == 2000


\* What one fetch() call can meet: the promise rejects (transport failure),
\* a non-2xx response, a 2xx response whose body is not JSON, or a 2xx
\* response with a JSON body.
RejectWith(e) == [kind |-> "reject", error |-> Err(<<e>>)]
Response(ok, status, body) == [kind |-> "response", ok |-> ok, status |-> status, body |-> body]
NotJSON == [type |-> "notjson"]

\* { ...a, ...b } : the properties of b override those of a.
Spread(a, b) == [f \in (DOMAIN a) \cup (DOMAIN b) |-> IF f \in DOMAIN b THEN b[f] ELSE a[f]]

\* x || y
OrElse(x, y) == IF Truthy(x) THEN x ELSE y

NoHeaders == [f \in {} |-> Str("")]

\* Mutant: the call's own headers are spread first, so the defaults win.
requestHeaders_defaultsLast(options, apiKey) ==
  Spread(options.headers,
         [f \in {"Accept", "x-chain", "X-API-KEY"} |->
            CASE f = "Accept" -> Str("application/json")
              [] f = "x-chain" -> Str("solana")
              [] f = "X-API-KEY" -> OrElse(apiKey, Str(""))])

\* The headers fetchWithRetry sends.
requestHeaders(options, apiKey) ==
  Spread([f \in {"Accept", "x-chain", "X-API-KEY"} |->
            CASE f = "Accept" -> Str("application/json")
              [] f = "x-chain" -> Str("solana")
              [] f = "X-API-KEY" -> OrElse(apiKey, Str(""))],
         options.headers)

\* Mutant: a 2xx answer without `success` or `data` counts as a failed attempt.
attemptError_checksShape(outcome) ==
  IF outcome.kind = "reject" THEN outcome.error
  ELSE IF ~outcome.ok THEN Err(<<"HTTP error! status", outcome.status, outcome.body>>)
  ELSE IF outcome.body = NotJSON THEN Err(<<"SyntaxError">>)
  ELSE IF ~Truthy(Prop(outcome.body, "success")) \/ ~Truthy(Prop(outcome.body, "data"))
  THEN Err(<<"No token security data available">>)
  ELSE Null

\* The error one attempt ends with, or Null when it succeeds.
attemptError(outcome) ==
  IF outcome.kind = "reject" THEN outcome.error
  ELSE IF ~outcome.ok THEN Err(<<"HTTP error! status", outcome.status, outcome.body>>)
  ELSE IF outcome.body = NotJSON THEN Err(<<"SyntaxError">>)
  ELSE Null

\* Mutant: lastError keeps the first error observed.
catchLastError_keepFirst(prev, error) == IF prev = Undefined THEN error ELSE prev

\* lastError = error as Error
catchLastError(prev, error) == error

\* RETRY_DELAY * Math.pow(2, i)
retryDelay(i) == RETRY_DELAY * 2^i

\* No call in progress.
RetryIdle ==
  [pc |-> "idle", i |-> 0, options |-> [headers |-> NoHeaders], lastError |-> Undefined,
   delay |-> 0, ret |-> Undefined, log |-> <<>>, delays |-> <<>>]

\* The call: `let lastError; for (let i = 0; ...`
fetchWithRetryCall(options) == [RetryIdle EXCEPT !.pc = "attempt", !.options = options]

\* Mutant: only a transport failure is retried; a non-2xx answer is thrown
\* at once.
fetchWithRetryAttempt_onlyTransport(fr, apiKey, outcome) ==
  LET error == attemptError(outcome)
      logged == [fr EXCEPT !.log = Append(@, [headers |-> requestHeaders(fr.options, apiKey),
                                               outcome |-> outcome, error |-> error])]
  IN
  IF error = Null
  THEN [logged EXCEPT !.pc = "returned", !.ret = outcome.body]
  ELSE LET caught == [logged EXCEPT !.lastError = catchLastError(fr.lastError, error)] IN
       IF fr.i < MAX_RETRIES - 1 /\ outcome.kind = "reject"
       THEN [caught EXCEPT !.pc = "wait", !.delay = retryDelay(fr.i)]
       ELSE [caught EXCEPT !.pc = "thrown", !.i = fr.i + 1, !.ret = caught.lastError]

\* One pass of the loop body, from fetch() up to the next await of a timer,
\* the return, or the throw after the loop.
fetchWithRetryAttempt(fr, apiKey, outcome) ==
  LET error == attemptError(outcome)
      logged == [fr EXCEPT !.log = Append(@, [headers |-> requestHeaders(fr.options, apiKey),
                                               outcome |-> outcome, error |-> error])]
  IN
  IF error = Null
  THEN [logged EXCEPT !.pc = "returned", !.ret = outcome.body]
  ELSE LET caught == [logged EXCEPT !.lastError = catchLastError(fr.lastError, error)] IN
       IF fr.i < MAX_RETRIES - 1
       THEN [caught EXCEPT !.pc = "wait", !.delay = retryDelay(fr.i)]
       ELSE [caught EXCEPT !.pc = "thrown", !.i = fr.i + 1, !.ret = caught.lastError]

\* The timer of the backoff has fired; `continue`.
fetchWithRetryWake(fr) ==
  [fr EXCEPT !.pc = "attempt", !.i = fr.i + 1, !.delays = Append(@, fr.delay)]

\* Mutant: the wait is a busy loop that keeps the thread until the delay
\* is over.
holdsThread_busyWait(fr) == fr.pc = "wait"

\* await new Promise((resolve) => setTimeout(resolve, delay)) and
\* await fetch(...): a call suspended at an await has given up the thread.
holdsThread(fr) == FALSE

InitRetryVars ==
  /\ settings = [BIRDEYE_API_KEY |-> Undefined]
  /\ retry = RetryIdle

CallFetchWithRetry(options) ==
  /\ retry.pc = "idle"
  /\ retry' = fetchWithRetryCall(options)
  /\ UNCHANGED <<settings, cacheVars, holderVars, reportVars, analyticsVars>>

RetryAttempt(outcome) ==
  /\ retry.pc = "attempt"
  /\ retry' = fetchWithRetryAttempt(retry, settings.BIRDEYE_API_KEY, outcome)
  /\ UNCHANGED <<settings, cacheVars, holderVars, reportVars, analyticsVars>>

\* Time passes until the timer fires.
RetryWake ==
  /\ retry.pc = "wait"
  /\ now' = now + retry.delay
  /\ retry' = fetchWithRetryWake(retry)
  /\ UNCHANGED <<settings, cache, files, histVars, holderVars, reportVars, analyticsVars>>

----------------------------------------------------------------------------
(* Arithmetic of doubles on the integers hi * 2^53 + n.                     *)
(* Below 2^53 every integer is a double.  From 2^53 on the doubles are      *)
(* spaced 2 apart, from 2^54 on 4 apart, and so on; a result in between is  *)
(* rounded to the nearest double, a tie to the one with the even mantissa.  *)

\* The distance between neighbouring doubles in [hi * 2^53, (hi + 1) * 2^53).
Spacing(hi) ==
  IF hi = 0 THEN 1
  ELSE 2 * (CHOOSE q \in {2^j : j \in 0..8} : q <= hi /\ hi < 2 * q)

\* The exact integer hi * 2^53 + n as the nearest double (n far below 2^53).
RoundToDouble(hi, n) ==
  LET sp == Spacing(hi)
      r == n % sp
      down == n - r
      up == down + sp
  IN Dbl(hi, IF 2 * r < sp THEN down
             ELSE IF 2 * r > sp THEN up
             ELSE IF (down \div sp) % 2 = 0 THEN down ELSE up)

\* x + y on doubles.
DoubleAdd(x, y) == RoundToDouble(x.hi + y.hi, x.n + y.n)

\* A JSON number read by response.json(): the nearest double.
\* parseFloat of a number gives the number back.
parseFloat(x) == RoundToDouble(x.hi, x.n)

\* (n).toString(): one string per number.
NumberToString(x) == [type |-> "string", s |-> "digits", hi |-> x.hi, n |-> x.n]

----------------------------------------------------------------------------
(* fetchHolderList(): the holder aggregator.                                *)

MAX_HOLDER_PAGES == 2

holderListKey(tokenAddress) == "holderList_" \o tokenAddress

\* The body of a getTokenAccounts answer.
TokenAccount(owner, amount) == Obj([f \in {"owner", "amount"} |->
                                     IF f = "owner" THEN Str(owner) ELSE amount])
TokenAccountsBody(accounts, cursor) ==
  Obj([f \in {"result"} |->
        Obj([g \in {"token_accounts", "cursor"} |->
              IF g = "token_accounts" THEN Arr(accounts) ELSE cursor])])
RpcErrorBody == Obj([f \in {"error"} |-> Str("rate limited")])

\* Position of the owner in the map (a sequence of entries in insertion
\* order), or 0.
mapIndex(map, owner) ==
  IF \E n \in 1..Len(map) : map[n].address = owner
  THEN CHOOSE n \in 1..Len(map) : map[n].address = owner
  ELSE 0

\* The body of the forEach: one account merged into allHoldersMap.
mergeAccount(map, account) ==
  LET owner == Prop(account, "owner")
      balance == parseFloat(Prop(account, "amount"))
      at == mapIndex(map, owner)
  IN IF at # 0
     THEN [map EXCEPT ![at].balance = DoubleAdd(map[at].balance, balance)]
     ELSE Append(map, [address |-> owner, balance |-> balance])

RECURSIVE mergePage(_, _)
\* data.result.token_accounts.forEach(...)
mergePage(map, accounts) ==
  IF accounts = <<>> THEN map
  ELSE mergePage(mergeAccount(map, Head(accounts)), Tail(accounts))

\* Array.from(allHoldersMap.entries()).map(...)
materialize(map) ==
  Arr([n \in 1..Len(map) |->
        Obj([f \in {"address", "balance"} |->
              IF f = "address" THEN map[n].address ELSE NumberToString(map[n].balance)])])

\* Mutant: the cap lets a third page through.
pageCapReached_offByOne(page) == page > MAX_HOLDER_PAGES + 1

\* if (page > 2) break;
pageCapReached(page) == page > MAX_HOLDER_PAGES

\* !data || !data.result || !data.result.token_accounts || length === 0
\* Mutant: an empty token_accounts list does not end the loop.
noMoreHolders_unlessEmpty(data) ==
  \/ ~Truthy(data)
  \/ ~Truthy(Prop(data, "result"))
  \/ ~Truthy(Prop(Prop(data, "result"), "token_accounts"))

noMoreHolders(data) ==
  \/ ~Truthy(data)
  \/ ~Truthy(Prop(data, "result"))
  \/ ~Truthy(Prop(Prop(data, "result"), "token_accounts"))
  \/ Len(Prop(Prop(data, "result"), "token_accounts").items) = 0

\* cacheError: as history, a cache operation of the call has thrown.
HolderIdle ==
  [pc |-> "idle", page |-> 1, cursor |-> Undefined, allHoldersMap |-> <<>>,
   ret |-> Undefined, log |-> <<>>, cacheError |-> FALSE]

\* After the loop: materialize, cache, return.
holderListFinish(fr, c, fs, k, t) ==
  LET holders == materialize(fr.allHoldersMap)
      w == setCachedData(c, fs, k, holders, t)
  IN IF w.error # Null
     THEN \* caught by the catch of fetchHolderList
          [f |-> [fr EXCEPT !.pc = "thrown", !.cacheError = TRUE,
                            !.ret = Err(<<"Failed to fetch holder list from Helius.">>)],
           c |-> w.c, fs |-> w.fs]
     ELSE [f |-> [fr EXCEPT !.pc = "returned", !.ret = holders], c |-> w.c, fs |-> w.fs]

\* The call, up to the first await: the cached list, or the first request.
fetchHolderListCall(c, fs, k, t) ==
  LET g == getCachedData(c, fs, k, t) IN
  IF g.error # Null
  THEN \* outside the try of fetchHolderList
       [f |-> [HolderIdle EXCEPT !.pc = "thrown", !.ret = g.error, !.cacheError = TRUE],
        c |-> g.c, fs |-> g.fs]
  ELSE IF Truthy(g.ret)
  THEN [f |-> [HolderIdle EXCEPT !.pc = "returned", !.ret = g.ret], c |-> g.c, fs |-> g.fs]
  ELSE [f |-> [HolderIdle EXCEPT !.pc = "fetch"], c |-> g.c, fs |-> g.fs]

\* From the answer to a request up to the next request, the return or the throw.
fetchHolderListResponse(fr, c, fs, k, t, outcome) ==
  LET sent == [fr EXCEPT !.log = Append(@, [cursor |-> fr.cursor, outcome |-> outcome])]
      failed == [f |-> [sent EXCEPT !.pc = "thrown",
                                    !.ret = Err(<<"Failed to fetch holder list from Helius.">>)],
                 c |-> c, fs |-> fs]
  IN
  IF outcome.kind = "reject" \/ outcome.body = NotJSON
  THEN failed
  ELSE LET data == outcome.body IN
       IF noMoreHolders(data)
       THEN holderListFinish(sent, c, fs, k, t)
       ELSE LET merged == [sent EXCEPT
                             !.allHoldersMap = mergePage(@, Prop(Prop(data, "result"), "token_accounts").items),
                             !.cursor = Prop(Prop(data, "result"), "cursor"),
                             !.page = fr.page + 1]
            IN IF pageCapReached(merged.page)
               THEN holderListFinish(merged, c, fs, k, t)
               ELSE [f |-> merged, c |-> c, fs |-> fs]

InitHolderVars == holder = HolderIdle

----------------------------------------------------------------------------
(* The analytics functions.                                                 *)

\* No analytics call in progress.
AnalyticsIdle == [op |-> "idle", pc |-> "idle", ret |-> Undefined]

InitAnalyticsVars == analytics = AnalyticsIdle

\* The six windows of analyzeHolderDistribution, in the order of `intervals`.
ChangeFields ==
  <<"unique_wallet_30m_change_percent", "unique_wallet_1h_change_percent",
    "unique_wallet_2h_change_percent", "unique_wallet_4h_change_percent",
    "unique_wallet_8h_change_percent", "unique_wallet_24h_change_percent">>

\* intervals.map((interval) => interval.change)
intervalChanges(tradeData) == [n \in 1..Len(ChangeFields) |-> Prop(tradeData, ChangeFields[n])]

\* change !== null && change !== undefined
isValidChange(change) == change # Null /\ change # Undefined

\* Mutant: a null or absent change counts as 0.
validChanges_nullAsZero(tradeData) ==
  [n \in 1..Len(ChangeFields) |->
     IF isValidChange(intervalChanges(tradeData)[n]) THEN intervalChanges(tradeData)[n] ELSE Num(0)]

\* .filter((change) => change !== null && change !== undefined)
validChanges(tradeData) == SelectSeq(intervalChanges(tradeData), isValidChange)

RECURSIVE reduceAdd(_, _)
\* changes.reduce((acc, curr) => acc + curr, acc)
reduceAdd(acc, changes) ==
  IF changes = <<>> THEN acc
  ELSE reduceAdd(DoubleAdd(acc, Head(changes)), Tail(changes))

\* validChanges.reduce(...) / validChanges.length : the quotient of two
\* integers, kept as the pair.  The double nearest to sum / length lies on
\* the same side of an integer threshold as sum / length itself, as long as
\* the integers are far below 2^53.
averageChange(changes) == [sum |-> reduceAdd(Num(0), changes), length |-> Len(changes)]

\* Mutant: the thresholds are inclusive.
exceeds_inclusive(average, threshold) == average.sum.n >= threshold * average.length

\* averageChange > threshold
exceeds(average, threshold) == average.sum.n > threshold * average.length

\* averageChange < threshold
isBelow(average, threshold) == average.sum.n < threshold * average.length

increaseThreshold == 10
decreaseThreshold == -10

analyzeHolderDistribution(tradeData) ==
  LET changes == validChanges(tradeData) IN
  IF Len(changes) = 0 THEN Str("stable")
  ELSE IF exceeds(averageChange(changes), increaseThreshold) THEN Str("increasing")
  ELSE IF isBelow(averageChange(changes), decreaseThreshold) THEN Str("decreasing")
  ELSE Str("stable")

\* BigNumber arithmetic is exact decimal arithmetic.  The model carries a
\* BigNumber as the integer hi * 2^53 + n (n far below 2^53), or NaN; prices
\* and USD values are carried in thousandths of a USD.
USD_UNITS == 1000

NaN == [type |-> "bignumber", nan |-> TRUE, hi |-> 0, n |-> 0]

\* new BigNumber(x): of a number or of a string of digits; NaN of anything else.
BigNumber(x) ==
  IF x.type = "number" \/ (x.type = "string" /\ x.s = "digits")
  THEN [type |-> "bignumber", nan |-> FALSE, hi |-> x.hi, n |-> x.n]
  ELSE NaN

\* a.multipliedBy(b), one of the two below 2^53
multipliedBy(a, b) ==
  IF a.nan \/ b.nan THEN NaN
  ELSE [type |-> "bignumber", nan |-> FALSE, hi |-> a.hi * b.n + a.n * b.hi, n |-> a.n * b.n]

\* a.plus(x)
plus(a, x) ==
  LET b == BigNumber(x) IN
  IF a.nan \/ b.nan THEN NaN
  ELSE [type |-> "bignumber", nan |-> FALSE, hi |-> a.hi + b.hi, n |-> a.n + b.n]

\* Mutant: the comparison is inclusive.
isGreaterThan_orEqual(a, k) == ~a.nan /\ (a.hi > 0 \/ (a.hi = 0 /\ a.n >= k))

\* a.isGreaterThan(k), k an integer below 2^53; false of NaN
isGreaterThan(a, k) == ~a.nan /\ (a.hi > 0 \/ (a.hi = 0 /\ a.n > k))

\* a.toFixed(2) of a USD value below 2^53 thousandths: rounded half up to
\* cents; one string per number of cents.
toFixed2(a) ==
  IF a.nan THEN Str("NaN")
  ELSE [type |-> "string", s |-> "toFixed(2)", hi |-> a.hi,
        cents |-> (a.n + (USD_UNITS \div 200)) \div (USD_UNITS \div 100)]

HIGH_VALUE_USD == 5

\* new BigNumber(holder.balance).multipliedBy(tokenPriceUsd)
balanceUsd(h, tradeData) ==
  multipliedBy(BigNumber(Prop(h, "balance")), BigNumber(Prop(tradeData, "price")))

\* balanceUsd.isGreaterThan(5)
isHighValue(h, tradeData) ==
  isGreaterThan(balanceUsd(h, tradeData), HIGH_VALUE_USD * USD_UNITS)

\* holdersData.filter(...).map(...)
filterHighValueHolders(holdersData, tradeData) ==
  LET kept == SelectSeq(holdersData.items, LAMBDA h : isHighValue(h, tradeData)) IN
  Arr([n \in 1..Len(kept) |->
        Obj([f \in {"holderAddress", "balanceUsd"} |->
              IF f = "holderAddress" THEN Prop(kept[n], "address")
              ELSE toFixed2(balanceUsd(kept[n], tradeData))])])

\* Mutant: a volume of exactly zero counts as recent trading.
checkRecentTrades_zeroCounts(tradeData) ==
  LET volume == BigNumber(Prop(tradeData, "volume_24h_usd")) IN
  ~volume.nan /\ ~isGreaterThan(multipliedBy(volume, BigNumber(Num(-1))), 0)

\* new BigNumber(tradeData.volume_24h_usd).isGreaterThan(0)
checkRecentTrades(tradeData) == isGreaterThan(BigNumber(Prop(tradeData, "volume_24h_usd")), 0)

\* ownerBalance.plus(securityData.creatorBalance)
totalSupply(securityData) ==
  plus(BigNumber(Prop(securityData, "ownerBalance")), Prop(securityData, "creatorBalance"))

\* Mutant: a holder at exactly 2% counts.
isHighSupply_inclusive(balance, total) ==
  /\ ~balance.nan /\ ~total.nan
  /\ \/ 50 * balance.hi > total.hi
     \/ (50 * balance.hi = total.hi /\ 50 * balance.n >= total.n)

\* balance.dividedBy(totalSupply).isGreaterThan(0.02), of balances >= 0:
\* balance / total > 1/50; x / 0 is Infinity for x > 0; false of NaN and 0 / 0.
isHighSupply(balance, total) ==
  /\ ~balance.nan /\ ~total.nan
  /\ \/ 50 * balance.hi > total.hi
     \/ (50 * balance.hi = total.hi /\ 50 * balance.n > total.n)

\* highSupplyHolders.filter(...).length
countHighSupplyHolders(holders, securityData) ==
  Num(Cardinality({n \in 1..Len(holders.items) :
                     isHighSupply(BigNumber(Prop(holders.items[n], "balance")),
                                  totalSupply(securityData))}))

\* filterHighValueHolders, after its fetchHolderList call h has ended.
filterHighValueHoldersDone(fr, h) ==
  IF h.pc = "thrown"
  THEN [fr EXCEPT !.pc = "thrown", !.ret = h.ret]
  ELSE [fr EXCEPT !.pc = "returned", !.holders = h.ret,
                  !.ret = filterHighValueHolders(h.ret, fr.tradeData)]

\* countHighSupplyHolders, after its fetchHolderList call h has ended; a
\* throw is caught and 0 returned.
countHighSupplyHoldersDone(fr, h) ==
  IF h.pc = "thrown"
  THEN [fr EXCEPT !.pc = "returned", !.ret = Num(0)]
  ELSE [fr EXCEPT !.pc = "returned", !.holders = h.ret,
                  !.ret = countHighSupplyHolders(h.ret, fr.securityData)]

\* analyzeHolderDistribution(tradeData), called and returned.
AnalyzeHolderDistribution(tradeData) ==
  /\ analytics.op = "idle"
  /\ analytics' = [op |-> "analyzeHolderDistribution", pc |-> "returned",
                   tradeData |-> tradeData, ret |-> analyzeHolderDistribution(tradeData)]
  /\ UNCHANGED <<cacheVars, retryVars, holderVars, reportVars>>

\* The caller has taken the result.
AnalyticsTaken ==
  /\ analytics.pc \in {"returned", "thrown"}
  /\ analytics' = AnalyticsIdle
  /\ UNCHANGED <<cacheVars, retryVars, holderVars, reportVars>>

----------------------------------------------------------------------------
(* getFormattedTokenReport(): the report pipeline.  Between two awaits of   *)
(* the network the code runs without interruption, so a step of the         *)
(* pipeline goes from one answer to the next request (or to the end).  A    *)
(* step works on the record w of what it can change: the report, the        *)
(* fetchWithRetry and fetchHolderList calls it drives, the provider's       *)
(* memory tier (c) and the files (fs).                                      *)

\* Mutant: the key is built from the address of the module's own token.
securityKey_ofExample(tokenAddress) == "tokenSecurity_" \o "A"

securityKey(tokenAddress) == "tokenSecurity_" \o tokenAddress
tradeDataKey(tokenAddress) == "tokenTradeData_" \o tokenAddress
dexScreenerKey(tokenAddress) == "dexScreenerData_" \o tokenAddress

SecurityFields == {"ownerBalance", "creatorBalance", "ownerPercentage", "creatorPercentage",
                   "top10HolderBalance", "top10HolderPercent"}
\* The fields of the trade data the analytics and the report read.
TradeFields == {"holder", "price", "unique_wallet_24h", "volume_24h_usd",
                "price_change_24h_percent", "price_change_12h_percent",
                "unique_wallet_30m_change_percent", "unique_wallet_1h_change_percent",
                "unique_wallet_2h_change_percent", "unique_wallet_4h_change_percent",
                "unique_wallet_8h_change_percent", "unique_wallet_24h_change_percent"}

Apology == Str("Unable to fetch token information. Please try again later.")

\* !data?.success || !data?.data
noDataAvailable(data) == ~Truthy(Prop(data, "success")) \/ ~Truthy(Prop(data, "data"))

\* fetch(url).then((res) => res.json()).catch((err) => console.error(err))
fetchJsonOrUndefined(outcome) ==
  IF outcome.kind = "reject" \/ outcome.body = NotJSON THEN Undefined ELSE outcome.body

securityOf(data) == Obj([f \in SecurityFields |-> Prop(Prop(data, "data"), f)])
tradeDataOf(data) == Obj([f \in TradeFields |-> Prop(Prop(data, "data"), f)])
dexDataOf(data) ==
  Obj([f \in {"schemaVersion", "pairs"} |-> Prop(data, f)])
DexFallback ==
  Obj([f \in {"schemaVersion", "pairs"} |->
        IF f = "schemaVersion" THEN Str("1.0.0") ELSE Arr(<<>>)])

\* dexData.pairs.length > 0
isDexScreenerListed(dexData) == Len(Prop(dexData, "pairs").items) > 0

\* Mutant: every pair has to be boosted (every() for some()).
isDexScreenerPaid_everyPair(dexData) ==
  \A n \in 1..Len(Prop(dexData, "pairs").items) :
    LET boosts == Prop(Prop(dexData, "pairs").items[n], "boosts") IN
    /\ Truthy(boosts)
    /\ Prop(boosts, "active").type = "number"
    /\ Prop(boosts, "active").n > 0

\* dexData.pairs.some((pair) => pair.boosts && pair.boosts.active > 0)
isDexScreenerPaid(dexData) ==
  \E n \in 1..Len(Prop(dexData, "pairs").items) :
    LET boosts == Prop(Prop(dexData, "pairs").items[n], "boosts") IN
    /\ Truthy(boosts)
    /\ Prop(boosts, "active").type = "number"
    /\ Prop(boosts, "active").n > 0

\* formatTokenData reads pair.volume.h24 and pair.liquidity.usd of every pair
\* of a listed token: a TypeError when volume or liquidity is missing.
formatTokenDataThrows(data) ==
  \E n \in 1..Len(Prop(data.dexScreenerData, "pairs").items) :
    LET pair == Prop(data.dexScreenerData, "pairs").items[n] IN
    Prop(pair, "volume") = Undefined \/ Prop(pair, "liquidity") = Undefined

\* `${x}` in a template literal: String(x). A number becomes its digits, a
\* missing or undefined value the text "undefined".
interpolate(x) ==
  CASE x.type = "undefined" -> Str("undefined")
    [] x.type = "null" -> Str("null")
    [] x.type = "number" -> [type |-> "string", s |-> "digits", hi |-> x.hi, n |-> x.n]
    [] x.type = "object" -> Str("[object Object]")
    [] OTHER -> x

\* a.toFixed(6): one string per value, "NaN" of NaN.
toFixed6(a) ==
  IF a.nan THEN Str("NaN")
  ELSE [type |-> "string", s |-> "toFixed(6)", hi |-> a.hi, n |-> a.n]

\* The six security properties the report prints.
SecurityLines ==
  {"ownerBalance", "creatorBalance", "ownerPercentage", "creatorPercentage",
   "top10HolderBalance", "top10HolderPercent"}

\* The four trade properties the report prints as they are.
TradeLines ==
  {"holder", "unique_wallet_24h", "price_change_24h_percent",
   "price_change_12h_percent"}

\* The lines of one DexScreener pair.
formatPair(pair) ==
  LET boosts == Prop(pair, "boosts") IN
  [dexId |-> interpolate(Prop(pair, "dexId")),
   url |-> interpolate(Prop(pair, "url")),
   priceUsd |-> toFixed6(BigNumber(Prop(pair, "priceUsd"))),
   volume |-> toFixed2(BigNumber(Prop(Prop(pair, "volume"), "h24"))),
   boosts |-> interpolate(IF Truthy(boosts) THEN Prop(boosts, "active") ELSE boosts),
   liquidity |-> toFixed2(BigNumber(Prop(Prop(pair, "liquidity"), "usd")))]

\* Mutant: the report also prints which properties the security object holds.
formatTokenData_ownKeys(tokenAddress, data) ==
  [type |-> "string", s |-> "**Token Security and Trade Report**",
   tokenAddress |-> tokenAddress,
   security |-> [f \in DOMAIN data.security.props |-> interpolate(Prop(data.security, f))]]

\* The report text, as the sequence of the values the template prints: each
\* is read from the data and converted to text.
formatTokenData(tokenAddress, data) ==
  LET highValueHolders == data.highValueHolders.items
      pairs == Prop(data.dexScreenerData, "pairs").items
  IN
  [type |-> "string", s |-> "**Token Security and Trade Report**",
   tokenAddress |-> tokenAddress,
   security |-> [f \in SecurityLines |-> interpolate(Prop(data.security, f))],
   tradeData |-> [f \in TradeLines |-> interpolate(Prop(data.tradeData, f))],
   volume |-> toFixed2(BigNumber(Prop(data.tradeData, "volume_24h_usd"))),
   price |-> toFixed2(BigNumber(Prop(data.tradeData, "price"))),
   holderDistributionTrend |-> interpolate(data.holderDistributionTrend),
   highValueHolders |->
     [n \in 1..Len(highValueHolders) |->
        <<interpolate(Prop(highValueHolders[n], "holderAddress")),
          interpolate(Prop(highValueHolders[n], "balanceUsd"))>>],
   recentTrades |-> IF data.recentTrades THEN "Yes" ELSE "No",
   highSupplyHoldersCount |-> interpolate(data.highSupplyHoldersCount),
   isDexScreenerListed |-> IF data.isDexScreenerListed THEN "Yes" ELSE "No",
   dexScreener |->
     IF data.isDexScreenerListed
     THEN <<IF data.isDexScreenerPaid THEN "Paid" ELSE "Free", Len(pairs),
            [n \in 1..Len(pairs) |-> formatPair(pairs[n])]>>
     ELSE <<>>]

\* What became of one sub-fetch: state is "none", "cached", "fetched",
\* "failed" (it threw) or "fallback" (it returned its fallback); attempts
\* counts the upstream requests made, last is the answer to the last one,
\* cacheError tells that a cache operation of the sub-fetch has thrown.
NotFetched == [state |-> "none", attempts |-> 0, last |-> Null, cacheError |-> FALSE]
SubFetches == {"security", "trade", "dex", "holders"}

ReportIdle ==
  [pc |-> "idle", security |-> Undefined, tradeData |-> Undefined, dexData |-> Undefined,
   holders |-> Undefined, processed |-> Undefined, ret |-> Undefined,
   fetches |-> [k \in SubFetches |-> NotFetched]]

\* An error reaches the catch of getFormattedTokenReport.
reportFails(w) == [w EXCEPT !.report.pc = "done", !.report.ret = Apology]

\* The end of getProcessedTokenData and formatTokenData.
reportFinish(w, tokenAddress, highSupplyHoldersCount) ==
  LET fr == w.report
      processedData ==
        [security |-> fr.security, tradeData |-> fr.tradeData,
         holderDistributionTrend |-> analyzeHolderDistribution(fr.tradeData),
         highValueHolders |-> filterHighValueHolders(fr.holders, fr.tradeData),
         recentTrades |-> checkRecentTrades(fr.tradeData),
         highSupplyHoldersCount |-> highSupplyHoldersCount,
         dexScreenerData |-> fr.dexData,
         isDexScreenerListed |-> isDexScreenerListed(fr.dexData),
         isDexScreenerPaid |-> isDexScreenerPaid(fr.dexData)]
  IN [w EXCEPT !.report.pc = "done",
               !.report.processed = processedData,
               !.report.ret = IF formatTokenDataThrows(processedData)
                              THEN Apology
                              ELSE formatTokenData(tokenAddress, processedData)]

\* countHighSupplyHolders: its fetchHolderList call ended.
reportHolders2Done(w, tokenAddress) ==
  reportFinish([w EXCEPT !.holder = HolderIdle], tokenAddress,
               \* a throw of fetchHolderList is caught: the count is 0
               IF w.holder.pc = "thrown" THEN Num(0)
               ELSE countHighSupplyHolders(w.holder.ret, w.report.security))

\* filterHighValueHolders: its fetchHolderList call ended.  Then
\* checkRecentTrades, and countHighSupplyHolders calls fetchHolderList again.
reportHolders1Done(w, tokenAddress, t) ==
  IF w.holder.pc = "thrown"
  THEN reportFails([w EXCEPT !.holder = HolderIdle,
                             !.report.fetches.holders =
                                [state |-> "failed", attempts |-> Len(w.holder.log),
                                 last |-> IF Len(w.holder.log) = 0 THEN Null
                                          ELSE w.holder.log[Len(w.holder.log)].outcome,
                                 cacheError |-> w.holder.cacheError]])
  ELSE LET took == [w EXCEPT !.report.holders = w.holder.ret,
                             !.report.fetches.holders =
                                IF Len(w.holder.log) = 0
                                THEN [state |-> "cached", attempts |-> 0, last |-> Null,
                                      cacheError |-> FALSE]
                                ELSE [state |-> "fetched", attempts |-> Len(w.holder.log),
                                      last |-> w.holder.log[Len(w.holder.log)].outcome,
                                      cacheError |-> FALSE]]
           h == fetchHolderListCall(took.c, took.fs, holderListKey(tokenAddress), t)
           called == [took EXCEPT !.holder = h.f, !.c = h.c, !.fs = h.fs]
       IN IF h.f.pc \in {"returned", "thrown"}
          THEN reportHolders2Done(called, tokenAddress)
          ELSE [called EXCEPT !.report.pc = "holders2"]

\* filterHighValueHolders calls fetchHolderList.
reportStartHolders(w, tokenAddress, t) ==
  LET h == fetchHolderListCall(w.c, w.fs, holderListKey(tokenAddress), t)
      called == [w EXCEPT !.holder = h.f, !.c = h.c, !.fs = h.fs]
  IN IF h.f.pc \in {"returned", "thrown"}
     THEN reportHolders1Done(called, tokenAddress, t)
     ELSE [called EXCEPT !.report.pc = "holders1"]

\* fetchDexScreenerData, up to its fetch.
reportStartDex(w, tokenAddress, t) ==
  LET g == getCachedData(w.c, w.fs, dexScreenerKey(tokenAddress), t)
      read == [w EXCEPT !.c = g.c, !.fs = g.fs]
  IN IF g.error # Null
     THEN \* getCachedData is called before the try of fetchDexScreenerData
          reportFails([read EXCEPT !.report.fetches.dex.state = "failed",
                                   !.report.fetches.dex.cacheError = TRUE])
     ELSE IF Truthy(g.ret)
     THEN reportStartHolders([read EXCEPT !.report.dexData = g.ret,
                                          !.report.fetches.dex.state = "cached"],
                             tokenAddress, t)
     ELSE [read EXCEPT !.report.pc = "dex"]

\* Mutant: the fallback is cached like a fetched result.
reportDexResponse_cachesFallback(w, tokenAddress, t, outcome) ==
  LET data == fetchJsonOrUndefined(outcome)
      asked == [w EXCEPT !.report.fetches.dex.attempts = @ + 1,
                         !.report.fetches.dex.last = outcome]
      failed == ~Truthy(data) \/ ~Truthy(Prop(data, "pairs"))
      dexData == IF failed THEN DexFallback ELSE dexDataOf(data)
      set == setCachedData(w.c, w.fs, dexScreenerKey(tokenAddress), dexData, t)
  IN reportStartHolders([asked EXCEPT !.report.dexData = dexData,
                                      !.report.fetches.dex.state =
                                         IF failed THEN "fallback" ELSE "fetched",
                                      !.c = set.c, !.fs = set.fs],
                        tokenAddress, t)

\* fetchDexScreenerData, from the answer on.
reportDexResponse(w, tokenAddress, t, outcome) ==
  LET data == fetchJsonOrUndefined(outcome)
      asked == [w EXCEPT !.report.fetches.dex.attempts = @ + 1,
                         !.report.fetches.dex.last = outcome]
  IN IF ~Truthy(data) \/ ~Truthy(Prop(data, "pairs"))
     THEN \* the throw is caught inside fetchDexScreenerData
          reportStartHolders([asked EXCEPT !.report.dexData = DexFallback,
                                           !.report.fetches.dex.state = "fallback"],
                             tokenAddress, t)
     ELSE LET dexData == dexDataOf(data)
              set == setCachedData(w.c, w.fs, dexScreenerKey(tokenAddress), dexData, t)
          IN IF set.error # Null
             THEN \* setCachedData is called inside the try: the throw is caught
                  reportStartHolders([asked EXCEPT !.report.dexData = DexFallback,
                                                   !.report.fetches.dex.state = "fallback",
                                                   !.report.fetches.dex.cacheError = TRUE,
                                                   !.c = set.c, !.fs = set.fs],
                                     tokenAddress, t)
             ELSE reportStartHolders([asked EXCEPT !.report.dexData = dexData,
                                                   !.report.fetches.dex.state = "fetched",
                                                   !.c = set.c, !.fs = set.fs],
                                     tokenAddress, t)

\* fetchTokenTradeData, up to its fetch.
reportStartTrade(w, tokenAddress, t) ==
  LET g == getCachedData(w.c, w.fs, tradeDataKey(tokenAddress), t)
      read == [w EXCEPT !.c = g.c, !.fs = g.fs]
  IN IF g.error # Null
     THEN reportFails([read EXCEPT !.report.fetches.trade.state = "failed",
                                   !.report.fetches.trade.cacheError = TRUE])
     ELSE IF Truthy(g.ret)
     THEN reportStartDex([read EXCEPT !.report.tradeData = g.ret,
                                      !.report.fetches.trade.state = "cached"],
                         tokenAddress, t)
     ELSE [read EXCEPT !.report.pc = "trade"]

\* Mutant: the trade data is cached before the answer is validated.
reportTradeResponse_cachesFirst(w, tokenAddress, t, outcome) ==
  LET data == fetchJsonOrUndefined(outcome)
      asked == [w EXCEPT !.report.fetches.trade.attempts = @ + 1,
                         !.report.fetches.trade.last = outcome]
      tradeData == tradeDataOf(data)
      set == setCachedData(w.c, w.fs, tradeDataKey(tokenAddress), tradeData, t)
  IN IF noDataAvailable(data)
     THEN reportFails([asked EXCEPT !.report.fetches.trade.state = "failed",
                                    !.c = set.c, !.fs = set.fs])
     ELSE reportStartDex([asked EXCEPT !.report.tradeData = tradeData,
                                       !.report.fetches.trade.state = "fetched",
                                       !.c = set.c, !.fs = set.fs],
                         tokenAddress, t)

\* fetchTokenTradeData, from the answer on.
reportTradeResponse(w, tokenAddress, t, outcome) ==
  LET data == fetchJsonOrUndefined(outcome)
      asked == [w EXCEPT !.report.fetches.trade.attempts = @ + 1,
                         !.report.fetches.trade.last = outcome]
  IN IF noDataAvailable(data)
     THEN reportFails([asked EXCEPT !.report.fetches.trade.state = "failed"])
     ELSE LET tradeData == tradeDataOf(data)
              set == setCachedData(w.c, w.fs, tradeDataKey(tokenAddress), tradeData, t)
          IN IF set.error # Null
             THEN reportFails([asked EXCEPT !.report.fetches.trade.state = "failed",
                                            !.report.fetches.trade.cacheError = TRUE,
                                            !.c = set.c, !.fs = set.fs])
             ELSE reportStartDex([asked EXCEPT !.report.tradeData = tradeData,
                                               !.report.fetches.trade.state = "fetched",
                                               !.c = set.c, !.fs = set.fs],
                                 tokenAddress, t)

\* Mutant: a failed security fetch is logged and the pipeline goes on to the
\* trade data.
reportSecurityFetched_goesOn(w, tokenAddress, t) ==
  LET asked == [w EXCEPT !.retry = RetryIdle,
                         !.report.fetches.security.attempts = Len(w.retry.log),
                         !.report.fetches.security.last =
                            w.retry.log[Len(w.retry.log)].outcome]
      data == w.retry.ret
  IN IF w.retry.pc = "thrown" \/ noDataAvailable(data)
     THEN reportStartTrade([asked EXCEPT !.report.fetches.security.state = "failed"],
                           tokenAddress, t)
     ELSE LET security == securityOf(data)
              set == setCachedData(w.c, w.fs, securityKey(tokenAddress), security, t)
          IN reportStartTrade([asked EXCEPT !.report.security = security,
                                            !.report.fetches.security.state = "fetched",
                                            !.c = set.c, !.fs = set.fs],
                              tokenAddress, t)

\* fetchTokenSecurity, from the end of fetchWithRetry on.
reportSecurityFetched(w, tokenAddress, t) ==
  LET asked == [w EXCEPT !.retry = RetryIdle,
                         !.report.fetches.security.attempts = Len(w.retry.log),
                         !.report.fetches.security.last =
                            w.retry.log[Len(w.retry.log)].outcome]
      data == w.retry.ret
  IN IF w.retry.pc = "thrown" \/ noDataAvailable(data)
     THEN reportFails([asked EXCEPT !.report.fetches.security.state = "failed"])
     ELSE LET security == securityOf(data)
              set == setCachedData(w.c, w.fs, securityKey(tokenAddress), security, t)
          IN IF set.error # Null
             THEN reportFails([asked EXCEPT !.report.fetches.security.state = "failed",
                                            !.report.fetches.security.cacheError = TRUE,
                                            !.c = set.c, !.fs = set.fs])
             ELSE reportStartTrade([asked EXCEPT !.report.security = security,
                                                 !.report.fetches.security.state = "fetched",
                                                 !.c = set.c, !.fs = set.fs],
                                   tokenAddress, t)

\* getFormattedTokenReport -> getProcessedTokenData -> fetchTokenSecurity, up
\* to its fetchWithRetry.
reportCall(w, tokenAddress, t) ==
  LET g == getCachedData(w.c, w.fs, securityKey(tokenAddress), t)
      read == [w EXCEPT !.report = ReportIdle, !.c = g.c, !.fs = g.fs]
  IN IF g.error # Null
     THEN reportFails([read EXCEPT !.report.fetches.security.state = "failed",
                                   !.report.fetches.security.cacheError = TRUE])
     ELSE IF Truthy(g.ret)
     THEN reportStartTrade([read EXCEPT !.report.security = g.ret,
                                        !.report.fetches.security.state = "cached"],
                           tokenAddress, t)
     ELSE [read EXCEPT !.report.pc = "security",
                       !.retry = fetchWithRetryCall([headers |-> NoHeaders])]

\* The value sub-fetch k gave to the report fr.
reportValue(fr, k) ==
  CASE k = "security" -> fr.security
    [] k = "trade" -> fr.tradeData
    [] k = "dex" -> fr.dexData
    [] k = "holders" -> fr.holders

NotReturned == [type |-> "none"]

\* The sub-fetches of the report fr, which ends at time t, that made an
\* upstream request and returned normally replace their entries of prev.
returnedAfter(prev, fr, t) ==
  [k \in SubFetches |->
     IF fr.fetches[k].state \in {"fetched", "fallback"}
     THEN [type |-> "returned", at |-> t, state |-> fr.fetches[k].state,
           value |-> reportValue(fr, k)]
     ELSE prev[k]]

\* The two fetchTokenSecurity calls in flight at once, and a call not made.
Calls == {"a", "b"}
CallIdle == [pc |-> "idle", by |-> "p1", ret |-> Undefined, missed |-> FALSE, wrote |-> NoCall]
NoCalls == [c \in Calls |-> CallIdle]

\* No fixture: the upstream answers anything at any time.
AnyUpstream == [type |-> "any"]

\* No handleTwitterInteractions run is in progress.
RunIdle == [pc |-> "idle", mentions |-> <<>>, i |-> 0, botTweets |-> <<>>, j |-> 0,
            replies |-> <<>>, k |-> 0]
\* No handleTweet call is in progress or has just returned.
HandleTweetIdle == [pc |-> "idle", tweet |-> 0, completions |-> 0, triesLeft |-> 0,
                    generated |-> 0, unparsed |-> 0, responseContent |-> Null,
                    sent |-> FALSE]
\* The client after its constructor (this.lastCheckedTweetId = null), before
\* start(), and a timeline without tweets.
TwitterConstructed ==
  [tweets |-> <<>>, lastCheckedTweetId |-> Null, run |-> RunIdle,
   call |-> HandleTweetIdle, handled |-> {}, handledEarlier |-> {}, sendCalls |-> {}]

InitReportVars ==
  /\ report = ReportIdle
  /\ returned = [k \in SubFetches |-> NotReturned]
  /\ upstream = AnyUpstream
  /\ reported = NotReturned
  /\ calls = NoCalls
  /\ twitter = TwitterConstructed

----------------------------------------------------------------------------
(* Specification of the cache: providers sharing one cache directory.       *)

NextCache ==
  \/ Tick
  \/ \E p \in Providers : NewProvider(p)
  \/ \E p \in Providers, k \in CacheKeys : GetCachedData(p, k)
  \/ \E p \in Providers, k \in CacheKeys, v \in CacheValues : SetCachedData(p, k, v)

InitCache == InitCacheVars /\ InitRetryVars /\ InitHolderVars /\ InitReportVars /\ InitAnalyticsVars

SpecCache == InitCache /\ [][NextCache]_vars

----------------------------------------------------------------------------
(* Claims about the cache, checked under SpecCache.                         *)

\* The get just made happened when the key had been set before.
GotAfterSet == got.type = "get" /\ got.set.type = "set"

\* C1 (as claimed): a get made 300 s or more after the most recent set of its
\* key reports absent, whichever provider instance makes it.
C1_NoFalseHit ==
  (GotAfterSet /\ got.at >= got.set.at + FILE_TTL_MS) => got.ret = Null

----------------------------------------------------------------------------
(* Specification of the retrying fetcher: one call against an upstream that *)
(* answers each attempt in any of the ways below.                           *)

ApiKeys == {Undefined, Str(""), Str("key")}
CallHeaders == {NoHeaders, [f \in {"X-API-KEY"} |-> Str("own")],
                [f \in {"Content-Type"} |-> Str("application/json")],
                [f \in {"x-chain", "Authorization"} |->
                   IF f = "x-chain" THEN Str("ethereum") ELSE Str("Bearer t")]}
JsonBodies == {Obj([f \in {"success"} |-> Num(1)])}
Outcomes == {RejectWith("ECONNRESET"), Response(FALSE, "500", "oops"),
             Response(FALSE, "429", "slow down"), Response(TRUE, "200", NotJSON)}
              \cup {Response(TRUE, "200", b) : b \in JsonBodies}

InitRetry == InitCacheVars /\ InitRetryVars /\ InitHolderVars /\ InitReportVars /\ InitAnalyticsVars

ConfigureSettings(key) ==
  /\ retry.pc = "idle"
  /\ settings' = [BIRDEYE_API_KEY |-> key]
  /\ settings' # settings
  /\ UNCHANGED <<cacheVars, retry, holderVars, reportVars, analyticsVars>>

NextRetry ==
  \/ \E key \in ApiKeys : ConfigureSettings(key)
  \/ \E h \in CallHeaders : CallFetchWithRetry([headers |-> h])
  \/ \E o \in Outcomes : RetryAttempt(o)
  \/ RetryWake

SpecRetry == InitRetry /\ [][NextRetry]_vars

----------------------------------------------------------------------------
(* Claims about fetchWithRetry, checked under SpecRetry.                    *)

\* C3: when every attempt fails, fetchWithRetry has made exactly 3 attempts,
\* has waited 2000 ms and then 4000 ms (nothing after the third attempt) and
\* throws the error of the third attempt.
C3_RetryExhaustion ==
  retry.pc = "thrown" =>
    /\ Len(retry.log) = 3
    /\ \A n \in 1..3 : retry.log[n].error # Null
    /\ retry.delays = <<2000, 4000>>
    /\ retry.ret = retry.log[3].error

\* C3 witness: three failed attempts, the third with an error unlike the
\* first two, thrown 6000 ms after the call.
C3_Witness ==
  /\ retry.pc = "thrown"
  /\ Len(retry.log) = 3
  /\ retry.log[1].error # retry.log[3].error
  /\ retry.log[2].error # retry.log[3].error
  /\ now = 6000

----------------------------------------------------------------------------
(* Specification of the holder aggregator: provider Self of token           *)
(* TokenAddress calls fetchHolderList again and again, against an upstream  *)
(* that answers each request in any of the ways below, while time passes.   *)

MaxPageLen == 2

Self == "p1"
TokenAddress == "A"
Owners == {"addr1", "addr2"}
Amounts == {Num(1), Dbl(1, 0)}
Cursors == {Undefined, Str("c1")}
Accounts == {TokenAccount(o, a) : o \in Owners, a \in Amounts}
Pages == UNION {[1..n -> Accounts] : n \in 0..MaxPageLen}
HolderOutcomes ==
  {RejectWith("ECONNRESET"), Response(FALSE, "429", RpcErrorBody), Response(FALSE, "502", NotJSON)}
    \cup {Response(TRUE, "200", TokenAccountsBody(a, c)) : a \in Pages, c \in Cursors}

InitHolder ==
  InitCacheOver({holderListKey(TokenAddress)}) /\ InitRetryVars /\ InitHolderVars /\ InitReportVars /\ InitAnalyticsVars

CallFetchHolderList ==
  /\ holder.pc = "idle"
  /\ LET r == fetchHolderListCall(cache[Self], files, holderListKey(TokenAddress), now) IN
     /\ holder' = r.f
     /\ cache' = [cache EXCEPT ![Self] = r.c]
     /\ files' = r.fs
  /\ UNCHANGED <<now, histVars, retryVars, reportVars, analyticsVars>>

HolderResponse(outcome) ==
  /\ holder.pc = "fetch"
  /\ LET r == fetchHolderListResponse(holder, cache[Self], files, holderListKey(TokenAddress),
                                      now, outcome) IN
     /\ holder' = r.f
     /\ cache' = [cache EXCEPT ![Self] = r.c]
     /\ files' = r.fs
  /\ UNCHANGED <<now, histVars, retryVars, reportVars, analyticsVars>>

\* The caller has taken the result.
HolderTaken ==
  /\ holder.pc \in {"returned", "thrown"}
  /\ holder' = HolderIdle
  /\ UNCHANGED <<cacheVars, retryVars, reportVars, analyticsVars>>

\* Time passes between two calls.
TickBetweenCalls == holder.pc = "idle" /\ Tick

NextHolder ==
  \/ CallFetchHolderList
  \/ \E o \in HolderOutcomes : HolderResponse(o)
  \/ HolderTaken
  \/ TickBetweenCalls

SpecHolder == InitHolder /\ [][NextHolder]_vars

----------------------------------------------------------------------------
(* Claims about fetchHolderList, checked under SpecHolder.                  *)

\* The holder-accounts requests issued by the call in progress: those
\* answered, and the one awaiting its answer.
holderRequests == Len(holder.log) + (IF holder.pc = "fetch" THEN 1 ELSE 0)

\* The accounts of the n-th answer (none when the answer carried no page).
pageOf(n) ==
  LET o == holder.log[n].outcome IN
  IF o.kind = "response" /\ o.body # NotJSON /\ ~noMoreHolders(o.body)
  THEN Prop(Prop(o.body, "result"), "token_accounts").items
  ELSE <<>>

\* The n-th request failed: the transport failed or the status was not 2xx.
requestFailed(n) ==
  LET o == holder.log[n].outcome IN o.kind = "reject" \/ ~o.ok

holderDone == holder.pc \in {"returned", "thrown"} /\ Len(holder.log) > 0

\* C7 (as claimed): when a holder-accounts request of the aggregation failed,
\* fetchHolderList throws and neither cache tier holds an entry for the
\* holder-list key.
C7_FailureIsAllOrNothing ==
  (holderDone /\ \E n \in 1..Len(holder.log) : requestFailed(n)) =>
    /\ holder.pc = "thrown"
    /\ cache[Self][holderListKey(TokenAddress)] = NoEntry
    /\ files[holderListKey(TokenAddress)] = NoFile

\* C8: an aggregation issues at most 2 holder-accounts requests, and after two
\* pages of accounts it has returned a holder list (it neither goes on nor
\* throws).
C8_AtMostTwoPages ==
  /\ holderRequests <= 2
  /\ (Len(holder.log) = 2 /\ pageOf(1) # <<>> /\ pageOf(2) # <<>>) =>
       (holder.pc = "returned" /\ holder.ret.type = "array")

\* C8 witness: two non-empty pages, the second with a fresh cursor; the call
\* has returned.
C8_Witness ==
  /\ holder.pc = "returned"
  /\ Len(holder.log) = 2
  /\ pageOf(1) # <<>> /\ pageOf(2) # <<>>
  /\ Prop(Prop(holder.log[2].outcome.body, "result"), "cursor") = Str("c1")

\* All accounts fetched by the aggregation, in order.
fetchedAccounts ==
  IF Len(holder.log) = 0 THEN <<>>
  ELSE IF Len(holder.log) = 1 THEN pageOf(1)
  ELSE pageOf(1) \o pageOf(2)

RECURSIVE exactSum(_, _)
\* The sum, in exact integer arithmetic, of the amounts of the accounts of
\* one owner, as the pair <<hi, n>>.
exactSum(accounts, owner) ==
  IF accounts = <<>> THEN <<0, 0>>
  ELSE LET rest == exactSum(Tail(accounts), owner)
           a == Head(accounts)
       IN IF Prop(a, "owner") = owner
          THEN <<rest[1] + Prop(a, "amount").hi, rest[2] + Prop(a, "amount").n>>
          ELSE rest

\* C9 (as claimed): the returned list holds each owner once, and with the sum
\* of the amounts of all its fetched accounts as its balance.
C9_AdditiveDeduplicatedMerge ==
  (holder.pc = "returned" /\ Len(holder.log) > 0) =>
    LET items == holder.ret.items IN
    /\ \A m, n \in 1..Len(items) :
         Prop(items[m], "address") = Prop(items[n], "address") => m = n
    /\ \A n \in 1..Len(fetchedAccounts) :
         \E m \in 1..Len(items) :
           Prop(items[m], "address") = Prop(fetchedAccounts[n], "owner")
    /\ \A m \in 1..Len(items) :
         LET sum == exactSum(fetchedAccounts, Prop(items[m], "address")) IN
         Prop(items[m], "balance") = NumberToString(Dbl(sum[1], sum[2]))

\* The address -> balance pairs of a holder list.
asMap(holders) == {holders.items[n] : n \in 1..Len(holders.items)}

\* C10 (as claimed): the aggregation of two pages gives the same
\* address -> balance map as the aggregation of the same pages in the other
\* order.
C10_PageOrderCommutes ==
  (holder.pc = "returned" /\ Len(holder.log) = 2) =>
    asMap(holder.ret) = asMap(materialize(mergePage(mergePage(<<>>, pageOf(2)), pageOf(1))))

----------------------------------------------------------------------------
(* Specification of the report pipeline: provider Self of token             *)
(* TokenAddress is asked for its report again and again; each upstream      *)
(* answers each request in any of the ways below; time passes between two   *)
(* reports and in the backoff waits.                                        *)

\* The reports are asked for at the instants 0 .. MaxReportClockSteps * ClockStepMs.
MaxReportClockSteps == 3

ReportKeys == {securityKey(TokenAddress), tradeDataKey(TokenAddress),
               dexScreenerKey(TokenAddress), holderListKey(TokenAddress)}

ErrorBody == Obj([f \in {"success"} |-> Undefined])
UpstreamFailures == {RejectWith("ECONNRESET"), Response(FALSE, "500", ErrorBody)}
DataBody(data) ==
  Obj([f \in {"success", "data"} |-> IF f = "success" THEN Num(1) ELSE data])
SecurityOutcomes ==
  {Response(FALSE, "500", ErrorBody),
   Response(TRUE, "200", ErrorBody),
   Response(TRUE, "200", DataBody(Obj([f \in {"ownerBalance", "creatorBalance"} |->
                                        IF f = "ownerBalance" THEN Num(100) ELSE Num(50)])))}
TradeOutcomes ==
  UpstreamFailures \cup
  {Response(TRUE, "200", DataBody(Obj([f \in {"price", "volume_24h_usd"} |->
                                        IF f = "price" THEN Num(2) ELSE Num(0)])))}
Pair(boosts) ==
  Obj([f \in {"dexId", "boosts", "volume", "liquidity"} |->
        CASE f = "dexId" -> Str("raydium")
          [] f = "boosts" -> boosts
          [] f = "volume" -> Obj([g \in {"h24"} |-> Num(7)])
          [] f = "liquidity" -> Obj([g \in {"usd"} |-> Num(9)])])
PairWithoutVolume == Obj([f \in {"dexId"} |-> Str("raydium")])
PairsBody(pairs) ==
  Obj([f \in {"schemaVersion", "pairs"} |->
        IF f = "schemaVersion" THEN Str("1.0.0") ELSE Arr(pairs)])
DexOutcomes ==
  UpstreamFailures \cup
  {Response(TRUE, "200", PairsBody(ps)) :
     ps \in {<<>>, <<Pair(Undefined)>>, <<Pair(Obj([g \in {"active"} |-> Num(1)]))>>,
             <<Pair(Obj([g \in {"active"} |-> Num(0)]))>>, <<PairWithoutVolume>>}}
ReportHolderOutcomes ==
  {RejectWith("ECONNRESET"), Response(FALSE, "429", RpcErrorBody),
   Response(TRUE, "200", TokenAccountsBody(<<>>, Undefined)),
   Response(TRUE, "200", TokenAccountsBody(<<TokenAccount("addr1", Num(5))>>, Str("c1")))}

InitReport == InitCacheOver(ReportKeys) /\ InitRetryVars /\ InitHolderVars /\ InitReportVars /\ InitAnalyticsVars

\* The part of the state a step of the pipeline works on.
World == [report |-> report, retry |-> retry, holder |-> holder, c |-> cache[Self], fs |-> files]

ReportStep(w) ==
  /\ report' = w.report
  /\ UNCHANGED <<returned, upstream, reported, calls, twitter>>
  /\ retry' = w.retry
  /\ holder' = w.holder
  /\ cache' = [cache EXCEPT ![Self] = w.c]
  /\ files' = w.fs
  /\ UNCHANGED <<now, histVars, settings, analyticsVars>>

\* A report is asked for at the instants k * ClockStepMs.
CallGetFormattedTokenReport ==
  /\ report.pc = "idle"
  /\ now % ClockStepMs = 0
  /\ ReportStep(reportCall(World, TokenAddress, now))

SecurityFetched ==
  /\ report.pc = "security"
  /\ retry.pc \in {"returned", "thrown"}
  /\ ReportStep(reportSecurityFetched(World, TokenAddress, now))

TradeResponse(outcome) ==
  /\ report.pc = "trade"
  /\ ReportStep(reportTradeResponse(World, TokenAddress, now, outcome))

DexResponse(outcome) ==
  /\ report.pc = "dex"
  /\ ReportStep(reportDexResponse(World, TokenAddress, now, outcome))

\* The fetchHolderList call of filterHighValueHolders, or that of
\* countHighSupplyHolders, has ended.
HoldersDone ==
  /\ report.pc \in {"holders1", "holders2"}
  /\ holder.pc \in {"returned", "thrown"}
  /\ ReportStep(IF report.pc = "holders1"
                THEN reportHolders1Done(World, TokenAddress, now)
                ELSE reportHolders2Done(World, TokenAddress))

\* The caller has taken the report.
ReportTaken ==
  /\ report.pc = "done"
  /\ report' = ReportIdle
  /\ UNCHANGED <<returned, upstream, reported, calls, twitter>>
  /\ UNCHANGED <<cacheVars, retryVars, holderVars, analyticsVars>>

\* tokenProvider.get makes a new TokenProvider for the report it returns.
NewTokenProvider ==
  /\ report.pc = "idle"
  /\ \E k \in ReportKeys : cache[Self][k] # NoEntry
  /\ NewProvider(Self)

\* Time passes between two reports, up to the next instant k * ClockStepMs.
TickBetweenReports ==
  /\ report.pc = "idle"
  /\ now < MaxReportClockSteps * ClockStepMs
  /\ now' = (now \div ClockStepMs + 1) * ClockStepMs
  /\ UNCHANGED <<cache, files, histVars, retryVars, holderVars, reportVars, analyticsVars>>

NextReport ==
  \/ CallGetFormattedTokenReport
  \/ \E o \in SecurityOutcomes : RetryAttempt(o)
  \/ RetryWake
  \/ SecurityFetched
  \/ \E o \in TradeOutcomes : TradeResponse(o)
  \/ \E o \in DexOutcomes : DexResponse(o)
  \/ \E o \in ReportHolderOutcomes : HolderResponse(o)
  \/ HoldersDone
  \/ ReportTaken
  \/ NewTokenProvider
  \/ TickBetweenReports

SpecReport == InitReport /\ [][NextReport]_vars

----------------------------------------------------------------------------
(* Claims about the report pipeline, checked under SpecReport.              *)

\* The sub-fetch k of the report ended in an error: it threw, or it caught
\* its own throw and returned its fallback.
subFetchFailed(k) == report.fetches[k].state \in {"failed", "fallback"}

\* The upstream answered the last request of sub-fetch k with a transport
\* failure or a non-2xx response.
upstreamFailed(k) ==
  LET o == report.fetches[k].last IN
  o # Null /\ (o.kind = "reject" \/ ~o.ok)

\* C4: getFormattedTokenReport never raises; whenever a step below it has
\* failed (a sub-fetch, or the formatting), it returns exactly "Unable to
\* fetch token information. Please try again later.".
C4_FailureGivesApology ==
  (report.pc = "done" /\ \E k \in SubFetches : subFetchFailed(k)) =>
    report.ret = Apology

\* C5: no partial report: when one of the sub-fetches (security, trade, DEX,
\* holder list) has failed, getProcessedTokenData has returned no
\* ProcessedTokenData; no composite holds a default in place of what the
\* failed sub-fetch would have fetched.
C5_NoPartialReport ==
  \A k \in SubFetches :
    (report.pc = "done" /\ subFetchFailed(k)) => report.processed = Undefined

\* C6: each of fetchTokenSecurity, fetchTokenTradeData and
\* fetchDexScreenerData gives up on an upstream failure (transport failure or
\* non-2xx) only after MAX_RETRIES requests.
C6_EverySubFetchRetries ==
  \A k \in {"security", "trade", "dex"} :
    (subFetchFailed(k) /\ upstreamFailed(k)) =>
      report.fetches[k].attempts = MAX_RETRIES

----------------------------------------------------------------------------
(* Specification of the analytics functions: each is called on every input  *)
(* below.                                                                   *)

\* What a window of the trade data can hold.
Changes == {Undefined, Null, Num(-13), Num(-10), Num(0), Num(20)}
\* The trade data whose n-th window holds c[n].
TrendInput(c) == Obj([f \in {ChangeFields[n] : n \in DOMAIN c} |->
                        c[CHOOSE n \in DOMAIN c : ChangeFields[n] = f]])

InitAnalytics ==
  InitCacheVars /\ InitRetryVars /\ InitHolderVars /\ InitReportVars /\ InitAnalyticsVars

NextAnalytics ==
  \/ /\ analytics.op = "idle"
     /\ \E c \in [1..Len(ChangeFields) -> Changes] : AnalyzeHolderDistribution(TrendInput(c))
  \/ AnalyticsTaken

SpecAnalytics == InitAnalytics /\ [][NextAnalytics]_vars

----------------------------------------------------------------------------
(* Claims about the analytics functions, checked under SpecAnalytics.       *)

\* The windows of the trade data that hold a number.
presentWindows(tradeData) ==
  {n \in 1..Len(ChangeFields) : Prop(tradeData, ChangeFields[n]).type = "number"}

RECURSIVE sumOfWindows(_, _)
\* The sum of the windows W of the trade data, in exact arithmetic.
sumOfWindows(tradeData, W) ==
  IF W = {} THEN 0
  ELSE LET n == CHOOSE m \in W : TRUE IN
       Prop(tradeData, ChangeFields[n]).n + sumOfWindows(tradeData, W \ {n})

\* The trend of windows with the sum `sum` over `count` values, count > 0:
\* mean > 10, mean < -10, or in between.
trendOfMean(sum, count) ==
  IF sum > 10 * count THEN Str("increasing")
  ELSE IF sum < (-10) * count THEN Str("decreasing")
  ELSE Str("stable")

trendCalled == analytics.op = "analyzeHolderDistribution"

C12_NullWindowsAreDiscarded ==
  (trendCalled /\ presentWindows(analytics.tradeData) # 1..Len(ChangeFields)) =>
    LET W == presentWindows(analytics.tradeData) IN
    analytics.ret = IF W = {} THEN Str("stable")
                    ELSE trendOfMean(sumOfWindows(analytics.tradeData, W), Cardinality(W))

\* C12 witness: one window holds 20, the others are null or absent (both
\* occur); the trend is "increasing" (with 0 for them the mean would be 20/6).
C12_Witness ==
  /\ trendCalled
  /\ Cardinality(presentWindows(analytics.tradeData)) = 1
  /\ \E n \in 1..Len(ChangeFields) : Prop(analytics.tradeData, ChangeFields[n]) = Num(20)
  /\ \E n \in 1..Len(ChangeFields) : Prop(analytics.tradeData, ChangeFields[n]) = Null
  /\ \E n \in 1..Len(ChangeFields) : Prop(analytics.tradeData, ChangeFields[n]) = Undefined
  /\ analytics.ret = Str("increasing")

----------------------------------------------------------------------------
(* Specification of the holder analytics: provider Self of token            *)
(* TokenAddress calls filterHighValueHolders and countHighSupplyHolders     *)
(* again and again on the inputs below; the holder upstream answers each    *)
(* request with a failure or a page of accounts.                            *)

\* Prices, in thousandths of a USD: 2.500, 2.502 and 2.505 USD, or none.
Prices == {Undefined, Num(2500), Num(2502), Num(2505)}
PriceInputs == {Obj([f \in {"price"} |-> p]) : p \in Prices}
SecurityInputs ==
  {Obj([f \in {"ownerBalance", "creatorBalance"} |->
         IF f = "ownerBalance" THEN Num(100) ELSE Num(50)]),
   Obj([f \in {"ownerBalance", "creatorBalance"} |-> Num(0)]),
   Obj([f \in {"ownerBalance"} |-> Num(100)])}
AnalyticsAccounts == {TokenAccount(o, a) : o \in Owners, a \in {Num(2), Num(3)}}
AnalyticsHolderOutcomes ==
  {RejectWith("ECONNRESET")}
    \cup {Response(TRUE, "200", TokenAccountsBody(a, Undefined)) :
            a \in UNION {[1..n -> AnalyticsAccounts] : n \in 0..MaxPageLen}}

InitHolderAnalytics ==
  /\ InitCacheOver({holderListKey(TokenAddress)})
  /\ InitRetryVars /\ InitHolderVars /\ InitReportVars /\ InitAnalyticsVars

\* An analytics function calls fetchHolderList.
AnalyticsCallsFetchHolderList(fr) ==
  /\ holder.pc = "idle"
  /\ LET r == fetchHolderListCall(cache[Self], files, holderListKey(TokenAddress), now) IN
     /\ holder' = r.f
     /\ cache' = [cache EXCEPT ![Self] = r.c]
     /\ files' = r.fs
  /\ analytics' = fr
  /\ UNCHANGED <<now, histVars, retryVars, reportVars>>

CallFilterHighValueHolders(tradeData) ==
  /\ analytics.op = "idle"
  /\ AnalyticsCallsFetchHolderList(
       [op |-> "filterHighValueHolders", pc |-> "await", tradeData |-> tradeData,
        securityData |-> Undefined, holders |-> Undefined, ret |-> Undefined])

CallCountHighSupplyHolders(securityData) ==
  /\ analytics.op = "idle"
  /\ AnalyticsCallsFetchHolderList(
       [op |-> "countHighSupplyHolders", pc |-> "await", tradeData |-> Undefined,
        securityData |-> securityData, holders |-> Undefined, ret |-> Undefined])

FilterHighValueHoldersDone ==
  /\ analytics.op = "filterHighValueHolders"
  /\ analytics.pc = "await"
  /\ holder.pc \in {"returned", "thrown"}
  /\ analytics' = filterHighValueHoldersDone(analytics, holder)
  /\ holder' = HolderIdle
  /\ UNCHANGED <<cacheVars, retryVars, reportVars>>

CountHighSupplyHoldersDone ==
  /\ analytics.op = "countHighSupplyHolders"
  /\ analytics.pc = "await"
  /\ holder.pc \in {"returned", "thrown"}
  /\ analytics' = countHighSupplyHoldersDone(analytics, holder)
  /\ holder' = HolderIdle
  /\ UNCHANGED <<cacheVars, retryVars, reportVars>>

NextHolderAnalytics ==
  \/ \E tradeData \in PriceInputs : CallFilterHighValueHolders(tradeData)
  \/ \E securityData \in SecurityInputs : CallCountHighSupplyHolders(securityData)
  \/ \E o \in AnalyticsHolderOutcomes : HolderResponse(o)
  \/ FilterHighValueHoldersDone
  \/ CountHighSupplyHoldersDone
  \/ AnalyticsTaken

SpecHolderAnalytics == InitHolderAnalytics /\ [][NextHolderAnalytics]_vars

----------------------------------------------------------------------------
(* Claims about the holder analytics, checked under SpecHolderAnalytics.    *)

filterReturned ==
  /\ analytics.op = "filterHighValueHolders"
  /\ analytics.pc = "returned"
  /\ Prop(analytics.tradeData, "price").type = "number"

\* The value of holder n of the list, in thousandths of a USD.
usdValue(n) ==
  Prop(analytics.holders.items[n], "balance").n * Prop(analytics.tradeData, "price").n

\* C13: filterHighValueHolders returns exactly the holders of the list whose
\* balance x price is strictly above 5 USD, each once, with its own address
\* and its USD value in cents, and no address that is not in the list.
C13_HighValueFilterIsStrict ==
  filterReturned =>
    LET holders == analytics.holders.items
        result == analytics.ret.items
    IN
    /\ \A n \in 1..Len(holders) :
         (usdValue(n) > 5 * 1000) <=>
           \E m \in 1..Len(result) :
             Prop(result[m], "holderAddress") = Prop(holders[n], "address")
    /\ \A m, k \in 1..Len(result) :
         Prop(result[m], "holderAddress") = Prop(result[k], "holderAddress") => m = k
    /\ \A m \in 1..Len(result) :
         \E n \in 1..Len(holders) :
           /\ Prop(result[m], "holderAddress") = Prop(holders[n], "address")
           /\ Prop(result[m], "balanceUsd").cents = (usdValue(n) + 5) \div 10

\* C13 witness: a list of two holders, one at exactly 5.000 USD, who is left
\* out, and one above, who is returned.
C13_Witness ==
  /\ filterReturned
  /\ Len(analytics.holders.items) = 2
  /\ \E n \in 1..2 : usdValue(n) = 5000
  /\ Len(analytics.ret.items) = 1

countReturned ==
  /\ analytics.op = "countHighSupplyHolders"
  /\ analytics.pc = "returned"
  /\ analytics.holders # Undefined
  /\ Prop(analytics.securityData, "ownerBalance").type = "number"
  /\ Prop(analytics.securityData, "creatorBalance").type = "number"

supplyOf(securityData) ==
  Prop(securityData, "ownerBalance").n + Prop(securityData, "creatorBalance").n

\* C14: countHighSupplyHolders returns the number of holders of the list
\* whose balance / (ownerBalance + creatorBalance) is strictly above 2%.
C14_HighSupplyCount ==
  (countReturned /\ supplyOf(analytics.securityData) > 0) =>
    analytics.ret =
      Num(Cardinality({n \in 1..Len(analytics.holders.items) :
                         100 * Prop(analytics.holders.items[n], "balance").n
                           > 2 * supplyOf(analytics.securityData)}))

\* C14 witness: ownerBalance 100, creatorBalance 50 and the single holder
\* addr1 with balance 5: the count is 1.
C14_Witness ==
  /\ countReturned
  /\ Prop(analytics.securityData, "ownerBalance") = Num(100)
  /\ Prop(analytics.securityData, "creatorBalance") = Num(50)
  /\ Len(analytics.holders.items) = 1
  /\ Prop(analytics.holders.items[1], "address") = Str("addr1")
  /\ Prop(analytics.holders.items[1], "balance").n = 5
  /\ analytics.ret = Num(1)

\* The fetchHolderList call an analytics function depended on has failed:
\* the function has ended without a holder list.
holderListFailed ==
  /\ analytics.op \in {"filterHighValueHolders", "countHighSupplyHolders"}
  /\ analytics.pc \in {"returned", "thrown"}
  /\ analytics.holders = Undefined

\* C15 (as claimed): only getFormattedTokenReport turns a failure into a
\* normal return value: an analytics function whose fetchHolderList call has
\* failed raises.
C15_OnlyTheBoundarySwallows ==
  holderListFailed => analytics.pc = "thrown"

----------------------------------------------------------------------------
(* Specification of the report pipeline over a damaged cache directory:     *)
(* the path of each key is in any of the states below when provider Self    *)
(* is asked for reports.                                                    *)

FileStates == {NoFile, NotJSONFile, ForeignFile, Unwritable}

InitCacheIO ==
  /\ now = 0
  /\ cache = [p \in Providers |-> [k \in ReportKeys |-> NoEntry]]
  /\ files \in [ReportKeys -> FileStates]
  /\ lastSet = [k \in ReportKeys |-> NoCall]
  /\ fresh = [p \in Providers |-> [k \in ReportKeys |-> FALSE]]
  /\ got = NoCall
  /\ InitRetryVars /\ InitHolderVars /\ InitReportVars /\ InitAnalyticsVars

NextCacheIO ==
  \/ CallGetFormattedTokenReport
  \/ \E o \in SecurityOutcomes : RetryAttempt(o)
  \/ RetryWake
  \/ SecurityFetched
  \/ \E o \in TradeOutcomes : TradeResponse(o)
  \/ \E o \in DexOutcomes : DexResponse(o)
  \/ \E o \in ReportHolderOutcomes : HolderResponse(o)
  \/ HoldersDone
  \/ ReportTaken

SpecCacheIO == InitCacheIO /\ [][NextCacheIO]_vars

----------------------------------------------------------------------------
(* Claims about cache failures, checked under SpecCacheIO.                  *)

\* C16 (as claimed): a sub-fetch one of whose cache operations has failed
\* (a read or a write of the persistent store has thrown) fails with an
\* error: it neither goes on as after a miss nor returns a value.
C16_CacheFailuresAreErrors ==
  \A k \in SubFetches :
    report.fetches[k].cacheError => report.fetches[k].state = "failed"

----------------------------------------------------------------------------
(* Claims about malformed answers, checked under SpecReport.                *)

\* A 2xx answer with a JSON body that lacks `success` or `data`.
malformedSuccess(o) ==
  o.kind = "response" /\ o.ok /\ o.body # NotJSON /\ noDataAvailable(o.body)

\* The security request of the report in progress has been answered last
\* with a malformed success.
securityAnsweredMalformed ==
  /\ report.pc = "security"
  /\ retry.log # <<>>
  /\ malformedSuccess(retry.log[Len(retry.log)].outcome)

\* C17: a 2xx answer of the security upstream without `success` or `data` is
\* a hard failure: no request and no backoff wait follows it (as the answer
\* to the first request it leaves exactly one request made), and
\* fetchTokenSecurity then fails at once, the report being the apology, with
\* both cache tiers and the clock as they were.
C17_MalformedSuccessIsHardFailure ==
  /\ [](securityAnsweredMalformed =>
          /\ retry.pc = "returned"
          /\ Len(retry.delays) = Len(retry.log) - 1)
  /\ [][securityAnsweredMalformed =>
          /\ report'.pc = "done"
          /\ report'.ret = Apology
          /\ report'.fetches.security.state = "failed"
          /\ report'.fetches.security.attempts = Len(retry.log)
          /\ cache' = cache
          /\ files' = files
          /\ now' = now]_vars

\* C17 witness: the first security request was answered 200 without
\* `success`; the report has failed after that one request, at the instant
\* of the call, and neither tier holds security data.
C17_Witness ==
  /\ report.pc = "done"
  /\ report.fetches.security.state = "failed"
  /\ report.fetches.security.attempts = 1
  /\ malformedSuccess(report.fetches.security.last)
  /\ now % ClockStepMs = 0
  /\ cache[Self][securityKey(TokenAddress)] = NoEntry
  /\ files[securityKey(TokenAddress)] = NoFile

----------------------------------------------------------------------------
(* The retrying fetcher with the timer of its backoff firing: the           *)
(* setTimeout of a wait always ends.  Whether the upstream ever answers a   *)
(* request is left open.                                                    *)

SpecRetryTimed == SpecRetry /\ WF_vars(RetryWake)

\* A non-2xx answer.
non2xx(o) == o.kind = "response" /\ ~o.ok
\* A 2xx answer with a parseable body.
succeeded(o) == o.kind = "response" /\ o.ok /\ o.body # NotJSON

\* C18: fetchWithRetry makes at most 3 attempts; a non-2xx answer to attempt
\* k < 3 starts the backoff wait, the wait ends and only then attempt k + 1 is
\* made; the first attempt answered 2xx with a parseable body is the last:
\* its JSON is returned, after as many waits as attempts before it.
C18_RetryUntilFirstSuccess ==
  /\ [](/\ Len(retry.log) <= MAX_RETRIES
        /\ \A n \in 1..Len(retry.log) :
             succeeded(retry.log[n].outcome) =>
               /\ n = Len(retry.log)
               /\ retry.pc = "returned"
               /\ retry.ret = retry.log[n].outcome.body
               /\ Len(retry.delays) = n - 1)
  /\ [][/\ (Len(retry'.log) = Len(retry.log) + 1
            /\ non2xx(retry'.log[Len(retry'.log)].outcome)
            /\ Len(retry'.log) < MAX_RETRIES)
           => (retry'.pc = "wait" /\ retry'.delay > 0)
        /\ retry.pc = "wait"
           => /\ retry'.pc = "attempt"
              /\ retry'.log = retry.log
              /\ retry'.delays = Append(retry.delays, retry.delay)
              /\ now' = now + retry.delay
        /\ retry.pc = "returned" => (retry' = retry /\ now' = now)]_vars
  /\ \A k \in 1..(MAX_RETRIES - 1) :
       (retry.pc = "wait" /\ Len(retry.log) = k)
         ~> (retry.pc = "attempt" /\ Len(retry.log) = k /\ Len(retry.delays) = k)

\* C18 witness: a 500, then a 429, then a 200 with a JSON body: returned by
\* the third attempt after two waits.
C18_Witness ==
  /\ retry.pc = "returned"
  /\ Len(retry.log) = 3
  /\ non2xx(retry.log[1].outcome)
  /\ non2xx(retry.log[2].outcome)
  /\ succeeded(retry.log[3].outcome)
  /\ retry.ret = retry.log[3].outcome.body
  /\ Len(retry.delays) = 2

----------------------------------------------------------------------------
(* Claims about the two tiers, checked under SpecCache.                     *)

\* The memory tier of p has no live entry for k.
memoryMiss(p, k) ==
  IF cache[p][k] = NoEntry THEN TRUE ELSE cache[p][k].t < now
\* The persistent tier holds an unexpired entry for k.
persistedUnexpired(k) == files[k].type = "file" /\ now < files[k].expiry
\* The step is a getCachedData(k) of provider p.
getStep(p, k) ==
  got' # got /\ got'.type = "get" /\ got'.by = p /\ got'.key = k

\* C19: a get that misses in the memory tier while the persistent tier holds
\* an unexpired entry returns that entry's value and leaves it in the memory
\* tier (the file is untouched); the next get of that key by the same provider
\* returns the same value from the memory tier, and so does every get made
\* while that memory entry lives, none of them touching the file.
C19_WriteThroughPromotion ==
  [][\A p \in Providers, k \in CacheKeys :
       getStep(p, k) =>
         /\ (memoryMiss(p, k) /\ persistedUnexpired(k)) =>
              /\ got'.tier = "file"
              /\ got'.ret = files[k].data
              /\ cache'[p][k] # NoEntry
              /\ cache'[p][k].v = files[k].data
              /\ cache'[p][k].t >= now
              /\ files' = files
         /\ (got.type = "get" /\ got.tier = "file" /\ got.by = p /\ got.key = k) =>
              /\ got'.tier = "memory"
              /\ got'.ret = got.ret
              /\ files' = files
         /\ ~memoryMiss(p, k) =>
              /\ got'.tier = "memory"
              /\ got'.ret = cache[p][k].v
              /\ files' = files]_vars

\* C19 witness: provider p2, which never held the key, has just been served
\* from the persistent tier the value p1 had set, and its memory tier now
\* holds that value.
C19_Witness ==
  /\ got.type = "get" /\ got.by = "p2" /\ got.tier = "file"
  /\ got.set.type = "set"
  /\ cache["p2"][got.key] # NoEntry
  /\ cache["p2"][got.key].v = got.ret
  /\ files[got.key].type = "file"
  /\ files[got.key].data = got.ret
  /\ cache["p1"][got.key] # NoEntry

----------------------------------------------------------------------------
(* Specification of the cache on a clock that meets the expiry of the       *)
(* files: instants 100 s apart, so that a get can be made exactly           *)
(* FILE_TTL_MS after a set.                                                 *)

ExpiryStepMs == 100000
MaxExpirySteps == 4

TickToExpiry ==
  /\ now < MaxExpirySteps * ExpiryStepMs
  /\ now' = now + ExpiryStepMs
  /\ got' = NoCall
  /\ UNCHANGED <<cache, files, lastSet, fresh, retryVars, holderVars, reportVars, analyticsVars>>

NextExpiry ==
  \/ TickToExpiry
  \/ \E p \in Providers : NewProvider(p)
  \/ \E p \in Providers, k \in CacheKeys : GetCachedData(p, k)
  \/ \E p \in Providers, k \in CacheKeys, v \in CacheValues : SetCachedData(p, k, v)

SpecExpiry == InitCache /\ [][NextExpiry]_vars

----------------------------------------------------------------------------
(* Claims about the expiry of files, checked under SpecExpiry.              *)

\* The step is a getCachedData(k) of provider p that reads the persistent
\* tier: a get after a miss in the memory tier.
readsFile(p, k) == getStep(p, k) /\ memoryMiss(p, k)

\* C20: a read of the persistent tier at now >= expiry of the entry deletes
\* the file and reports absent; a read at now < expiry returns the entry's
\* value and leaves the file as it is; so no read of the persistent tier
\* returns the value of an expired entry.
C20_ExpiredFilesAreDeletedOnRead ==
  [][\A p \in Providers, k \in CacheKeys :
       (readsFile(p, k) /\ files[k].type = "file") =>
         IF now >= files[k].expiry
         THEN /\ files'[k] = NoFile
              /\ got'.ret = Null
              /\ got'.tier = "none"
              /\ cache'[p][k] = NoEntry
         ELSE /\ files' = files
              /\ got'.ret = files[k].data
              /\ got'.tier = "file"]_vars

\* C20 witness: provider p2 reads the persistent tier exactly FILE_TTL_MS
\* after the set of the key: absent, and the file is gone, while p1 still
\* holds the value in memory.
C20_Witness ==
  /\ got.type = "get" /\ got.by = "p2" /\ got.tier = "none"
  /\ got.set.type = "set"
  /\ got.at = got.set.at + FILE_TTL_MS
  /\ got.ret = Null
  /\ files[got.key] = NoFile
  /\ cache["p1"][got.key] # NoEntry

----------------------------------------------------------------------------
(* Claims about setCachedData, checked under SpecCache.                     *)

\* The step is a setCachedData(k, v) of provider p.
setStep(p, k) == lastSet'[k] # lastSet[k] /\ lastSet'[k].by = p

\* C21: setCachedData(k, v) at time T leaves v under k in the memory tier of
\* the provider and the record {data: v, expiry: T + 300000} in the file of
\* k, whatever either held before (v is read back from the file with every
\* property reading as in v).
C21_SetWritesBothTiers ==
  [][\A p \in Providers, k \in CacheKeys :
       setStep(p, k) =>
         LET v == lastSet'[k].v IN
         /\ lastSet'[k].at = now
         /\ cache'[p][k] # NoEntry
         /\ cache'[p][k].v = v
         /\ cache'[p][k].t = now + 300 * 1000
         /\ files'[k].type = "file"
         /\ SameValue(JSONparse(files'[k]).data, v)
         /\ files'[k].expiry = now + 300000
         /\ now' = now]_vars

\* C21 witness: p2 has just set a value while p1 still holds another one in
\* memory, written earlier; the file now has p2's value and a later expiry
\* than p1's set gave it.
C21_Witness ==
  \E k \in CacheKeys :
    /\ lastSet[k].type = "set" /\ lastSet[k].by = "p2" /\ lastSet[k].at = now
    /\ cache["p1"][k] # NoEntry
    /\ cache["p1"][k].v # lastSet[k].v
    /\ cache["p1"][k].t < now + 300000
    /\ cache["p2"][k] # NoEntry
    /\ cache["p2"][k].v = lastSet[k].v
    /\ files[k].type = "file"
    /\ SameValue(files[k].data, lastSet[k].v)
    /\ files[k].expiry = now + 300000

----------------------------------------------------------------------------
(* Specification of repeated reports: as SpecReport, with the history of    *)
(* what each sub-fetch returned kept from one report to the next.           *)

MaxRepeatClockSteps == 2

\* The caller has taken the report; what its sub-fetches returned is noted.
ReportTakenAndNoted ==
  /\ report.pc = "done"
  /\ report' = ReportIdle
  /\ returned' = returnedAfter(returned, report, now)
  /\ UNCHANGED <<upstream, reported, calls, twitter>>
  /\ UNCHANGED <<cacheVars, retryVars, holderVars, analyticsVars>>

\* Time passes between two reports, up to the next instant k * ClockStepMs.
TickBetweenRepeats ==
  /\ report.pc = "idle"
  /\ now < MaxRepeatClockSteps * ClockStepMs
  /\ now' = (now \div ClockStepMs + 1) * ClockStepMs
  /\ UNCHANGED <<cache, files, histVars, retryVars, holderVars, reportVars, analyticsVars>>

NextRepeat ==
  \/ CallGetFormattedTokenReport
  \/ \E o \in SecurityOutcomes : RetryAttempt(o)
  \/ RetryWake
  \/ SecurityFetched
  \/ \E o \in TradeOutcomes : TradeResponse(o)
  \/ \E o \in DexOutcomes : DexResponse(o)
  \/ \E o \in ReportHolderOutcomes : HolderResponse(o)
  \/ HoldersDone
  \/ ReportTakenAndNoted
  \/ NewTokenProvider
  \/ TickBetweenRepeats

SpecRepeat == InitReport /\ [][NextRepeat]_vars

----------------------------------------------------------------------------
(* Claims about repeated fetches, checked under SpecRepeat.                  *)

\* Sub-fetch k of the report just made has been called less than 300 s
\* after it last returned normally from a cache miss.
repeatedWithinTTL(k) ==
  /\ report.pc = "done"
  /\ report.fetches[k].state # "none"
  /\ returned[k].type = "returned"
  /\ now < returned[k].at + 300000

\* C22 (as claimed): a sub-fetch (security, trade data, DexScreener, holder
\* list) called again less than 300 s after it returned normally from a cache
\* miss makes no upstream request and returns what it returned then.
C22_RepeatedFetchIsServedFromCache ==
  \A k \in SubFetches :
    repeatedWithinTTL(k) =>
      /\ report.fetches[k].state = "cached"
      /\ report.fetches[k].attempts = 0
      /\ JSONstringify(reportValue(report, k)) = JSONstringify(returned[k].value)

----------------------------------------------------------------------------
(* Specification of the cache keys: provider p1 of token A and provider p2  *)
(* of token B, sharing the cache directory, make the cache operations of    *)
(* their fetch methods while time passes.                                   *)

MaxScopeClockSteps == 2

OtherTokenAddress == "B"
tokenAddressOf == [p \in Providers |-> IF p = Self THEN TokenAddress ELSE OtherTokenAddress]

ScopeKinds == {"security", "trade"}
\* const cacheKey = `<kind>_${this.tokenAddress}`
cacheKeyOf(kind, tokenAddress) ==
  IF kind = "security" THEN securityKey(tokenAddress) ELSE tradeDataKey(tokenAddress)

ScopeKeys == {"tokenSecurity_A", "tokenTradeData_A", "tokenSecurity_B", "tokenTradeData_B"}
ScopeValues == {Obj([f \in {"ownerBalance"} |-> Num(100)])}

InitScope ==
  /\ InitCacheOver(ScopeKeys)
  /\ InitRetryVars /\ InitHolderVars /\ InitReportVars /\ InitAnalyticsVars

\* this.getCachedData(cacheKey) of a fetch method of p.
FetchGetsCachedData(p, kind) ==
  /\ kind \in ScopeKinds
  /\ GetCachedData(p, cacheKeyOf(kind, tokenAddressOf[p]))

\* this.setCachedData(cacheKey, v) of a fetch method of p.
FetchSetsCachedData(p, kind, v) ==
  /\ kind \in ScopeKinds
  /\ SetCachedData(p, cacheKeyOf(kind, tokenAddressOf[p]), v)

TickOfScope ==
  /\ now < MaxScopeClockSteps * ClockStepMs
  /\ now' = now + ClockStepMs
  /\ got' = NoCall
  /\ UNCHANGED <<cache, files, lastSet, fresh, retryVars, holderVars, reportVars, analyticsVars>>

NextScope ==
  \/ TickOfScope
  \/ \E p \in Providers, kind \in ScopeKinds : FetchGetsCachedData(p, kind)
  \/ \E p \in Providers, kind \in ScopeKinds, v \in ScopeValues : FetchSetsCachedData(p, kind, v)

SpecScope == InitScope /\ [][NextScope]_vars

----------------------------------------------------------------------------
(* Claims about the scope of cache keys, checked under SpecScope.           *)

\* The keys that contain the address of the token of p.
keysOfTokenOf ==
  [p \in Providers |-> IF p = "p1" THEN {"tokenSecurity_A", "tokenTradeData_A"}
                       ELSE {"tokenSecurity_B", "tokenTradeData_B"}]

\* The step is a cache operation (get or set) of provider p on key k.
cacheStep(p, k) ==
  \/ got' # got /\ got'.type = "get" /\ got'.by = p /\ got'.key = k
  \/ lastSet'[k] # lastSet[k] /\ lastSet'[k].by = p

\* C23: a cache operation of the provider of a token works on a key of that
\* token and of one data kind; it leaves the file and the memory entries of
\* every other key (the other token's, the other kind's) as they were, and
\* the memory tier of the other provider too.
C23_KeysAreScoped ==
  [][\A p \in Providers, k \in ScopeKeys :
       cacheStep(p, k) =>
         /\ k \in keysOfTokenOf[p]
         /\ \A k2 \in ScopeKeys \ {k} :
              /\ files'[k2] = files[k2]
              /\ \A q \in Providers : cache'[q][k2] = cache[q][k2]
         /\ \A q \in Providers \ {p} : cache'[q] = cache[q]]_vars

\* C23 witness: the provider of token A has just found its security entry
\* expired and deleted the file, while the entries of token B and the trade
\* data of token A are in place in the files and in memory.
C23_Witness ==
  /\ got.type = "get" /\ got.by = "p1" /\ got.key = "tokenSecurity_A"
  /\ got.set.type = "set" /\ got.ret = Null
  /\ files["tokenSecurity_A"] = NoFile
  /\ files["tokenSecurity_B"].type = "file"
  /\ files["tokenTradeData_A"].type = "file"
  /\ cache["p2"]["tokenSecurity_B"] # NoEntry
  /\ cache["p1"]["tokenTradeData_A"] # NoEntry

----------------------------------------------------------------------------
(* Specification of the backoff wait among other operations: while a        *)
(* fetchWithRetry call is suspended in its wait, the providers get and set  *)
(* the holder list in the cache and provider Self runs fetchHolderList.     *)

BackoffOutcomes == {Response(FALSE, "500", "oops"),
                    Response(TRUE, "200", Obj([f \in {"success"} |-> Num(1)]))}
BackoffValues == {Arr(<<>>)}

\* Another operation can take a step: a fetchWithRetry call is in its wait
\* and does not hold the thread.
duringBackoff == retry.pc = "wait" /\ ~holdsThread(retry)

BackoffCallsFetchWithRetry ==
  /\ retry.pc = "idle"
  /\ CallFetchWithRetry([headers |-> NoHeaders])

MeanwhileGetCachedData(p) ==
  /\ duringBackoff
  /\ GetCachedData(p, holderListKey(TokenAddress))

MeanwhileSetCachedData(p, v) ==
  /\ duringBackoff
  /\ SetCachedData(p, holderListKey(TokenAddress), v)

MeanwhileCallFetchHolderList ==
  /\ duringBackoff
  /\ CallFetchHolderList

MeanwhileHolderResponse(outcome) ==
  /\ duringBackoff
  /\ HolderResponse(outcome)

MeanwhileHolderTaken ==
  /\ duringBackoff
  /\ HolderTaken

NextBackoff ==
  \/ BackoffCallsFetchWithRetry
  \/ \E o \in BackoffOutcomes : RetryAttempt(o)
  \/ RetryWake
  \/ \E p \in Providers : MeanwhileGetCachedData(p)
  \/ \E p \in Providers, v \in BackoffValues : MeanwhileSetCachedData(p, v)
  \/ MeanwhileCallFetchHolderList
  \/ \E o \in ReportHolderOutcomes : MeanwhileHolderResponse(o)
  \/ MeanwhileHolderTaken

SpecBackoff == InitHolder /\ [][NextBackoff]_vars

----------------------------------------------------------------------------
(* Claims about the backoff wait, checked under SpecBackoff.                *)

----------------------------------------------------------------------------
(* Specification of repeated reports over a fixed upstream fixture: every   *)
(* request of one kind gets the same answer, and the text of the first      *)
(* report is kept.                                                          *)

MaxFixtureClockSteps == 2

\* A fixture: one answer per kind of request, and for the holder-accounts
\* method one answer per cursor sent.
Fixtures ==
  [security : SecurityOutcomes, trade : TradeOutcomes, dex : DexOutcomes,
   holders : [Cursors -> ReportHolderOutcomes]]

InitFixture ==
  /\ InitCacheOver(ReportKeys) /\ InitRetryVars /\ InitHolderVars /\ InitAnalyticsVars
  /\ report = ReportIdle
  /\ returned = [k \in SubFetches |-> NotReturned]
  /\ upstream \in Fixtures
  /\ reported = NotReturned
  /\ calls = NoCalls
  /\ twitter = TwitterConstructed

\* The upstream answers the security request as the fixture says.
FixtureRetryAttempt == upstream # AnyUpstream /\ RetryAttempt(upstream.security)

FixtureTradeResponse == upstream # AnyUpstream /\ TradeResponse(upstream.trade)

FixtureDexResponse == upstream # AnyUpstream /\ DexResponse(upstream.dex)

\* The answer to a holder-accounts request is that of the cursor it carries.
FixtureHolderResponse ==
  /\ upstream # AnyUpstream
  /\ holder.pc = "fetch"
  /\ HolderResponse(upstream.holders[holder.cursor])

\* The caller has taken the report; the text of the first one is kept.
ReportTakenAndKept ==
  /\ report.pc = "done"
  /\ report' = ReportIdle
  /\ reported' = IF reported = NotReturned
                 THEN [type |-> "returned", text |-> report.ret, fetches |-> report.fetches]
                 ELSE reported
  /\ UNCHANGED <<returned, upstream, calls, twitter>>
  /\ UNCHANGED <<cacheVars, retryVars, holderVars, analyticsVars>>

\* Time passes between two reports, up to the next instant k * ClockStepMs.
TickBetweenFixtureReports ==
  /\ report.pc = "idle"
  /\ now < MaxFixtureClockSteps * ClockStepMs
  /\ now' = (now \div ClockStepMs + 1) * ClockStepMs
  /\ UNCHANGED <<cache, files, histVars, retryVars, holderVars, reportVars, analyticsVars>>

NextFixture ==
  \/ CallGetFormattedTokenReport
  \/ FixtureRetryAttempt
  \/ RetryWake
  \/ SecurityFetched
  \/ FixtureTradeResponse
  \/ FixtureDexResponse
  \/ FixtureHolderResponse
  \/ HoldersDone
  \/ ReportTakenAndKept
  \/ NewTokenProvider
  \/ TickBetweenFixtureReports

SpecFixture == InitFixture /\ [][NextFixture]_vars

----------------------------------------------------------------------------
(* Claims about the report text, checked under SpecFixture.                  *)

----------------------------------------------------------------------------
(* Claims about the request headers, checked under SpecRetry.                *)

\* The value of the API-key header when the call gives none: the configured
\* key, the empty string when none is configured.
configuredKey ==
  IF settings.BIRDEYE_API_KEY \in {Undefined, Str("")} THEN Str("")
  ELSE settings.BIRDEYE_API_KEY

\* C26
\* Header merge: the request of every attempt of fetchWithRetry carries the
\* x-chain header and the X-API-KEY header (the empty string when no key is
\* configured) together with the call's own headers and nothing else but
\* Accept; a header the call gives itself is sent with the call's value.
C26_HeadersAreMerged ==
  \A n \in 1..Len(retry.log) :
    LET sent == retry.log[n].headers
        own == retry.options.headers
    IN /\ DOMAIN sent = {"Accept", "x-chain", "X-API-KEY"} \cup DOMAIN own
       /\ \A f \in DOMAIN own : sent[f] = own[f]
       /\ "x-chain" \notin DOMAIN own => sent["x-chain"] = Str("solana")
       /\ "X-API-KEY" \notin DOMAIN own => sent["X-API-KEY"] = configuredKey

\* C26 witness: three attempts of a call that gives its own X-API-KEY while
\* another key is configured: each request carried the call's value and the
\* chain header.
C26_Witness ==
  /\ Len(retry.log) = 3
  /\ settings.BIRDEYE_API_KEY = Str("key")
  /\ retry.options.headers = [f \in {"X-API-KEY"} |-> Str("own")]
  /\ \A n \in 1..3 : /\ retry.log[n].headers["X-API-KEY"] = Str("own")
                      /\ retry.log[n].headers["x-chain"] = Str("solana")

----------------------------------------------------------------------------
(* Specification of checkRecentTrades: called on every trade data below.    *)

MaxVolume == 10

\* What volume_24h_usd can hold: nothing, null, a text that is no number, a
\* number or a string of digits, in thousandths of a USD, each negative, zero
\* or positive, within and beyond 2^53.
Volumes ==
  {Undefined, Null, Str("n/a")}
    \cup {Dbl(hi, n) : hi \in {-1, 0, 1}, n \in -MaxVolume..MaxVolume}
    \cup {NumberToString(Num(n)) : n \in -MaxVolume..MaxVolume}

\* What price can hold beside the volume.
VolumePrices == {Num(0), Num(2)}

\* The trade data of volume v and price p; no volume_24h_usd property when v
\* is undefined.
VolumeInput(v, p) ==
  IF v = Undefined THEN Obj([f \in {"price"} |-> p])
  ELSE Obj([f \in {"price", "volume_24h_usd"} |-> IF f = "price" THEN p ELSE v])

\* checkRecentTrades(tradeData), called and returned.
CheckRecentTrades(tradeData) ==
  /\ analytics.op = "idle"
  /\ analytics' = [op |-> "checkRecentTrades", pc |-> "returned",
                   tradeData |-> tradeData, ret |-> checkRecentTrades(tradeData)]
  /\ UNCHANGED <<cacheVars, retryVars, holderVars, reportVars>>

NextRecentTrades ==
  \/ \E v \in Volumes, p \in VolumePrices : CheckRecentTrades(VolumeInput(v, p))
  \/ AnalyticsTaken

SpecRecentTrades == InitAnalytics /\ [][NextRecentTrades]_vars

----------------------------------------------------------------------------
(* Claims about checkRecentTrades, checked under SpecRecentTrades.          *)

\* The sign of the volume of the trade data, "none" of what is neither a
\* number nor a string of digits.
volumeSign(tradeData) ==
  LET v == Prop(tradeData, "volume_24h_usd") IN
  IF ~(v.type = "number" \/ (v.type = "string" /\ v.s = "digits")) THEN "none"
  ELSE IF v.hi # 0 THEN (IF v.hi > 0 THEN "positive" ELSE "negative")
  ELSE IF v.n > 0 THEN "positive" ELSE IF v.n < 0 THEN "negative" ELSE "zero"

\* C27
\* checkRecentTrades returns true exactly when the 24h USD volume of the trade
\* data is strictly positive: false of a volume of zero, of a negative one
\* and of one that is no number.
C27_RecentTradesIffPositiveVolume ==
  (analytics.op = "checkRecentTrades" /\ analytics.pc = "returned") =>
    (analytics.ret <=> volumeSign(analytics.tradeData) = "positive")

\* C27 witness: checkRecentTrades has returned false of a volume of exactly 0.
C27_Witness ==
  /\ analytics.op = "checkRecentTrades"
  /\ analytics.pc = "returned"
  /\ Prop(analytics.tradeData, "volume_24h_usd") = Num(0)
  /\ analytics.ret = FALSE

----------------------------------------------------------------------------
(* Claims about the pagination of fetchHolderList, checked under SpecHolder. *)

\* The cursor the n-th response of the aggregation carries, Undefined when it
\* carries none.
cursorOf(n) == Prop(Prop(holder.log[n].outcome.body, "result"), "cursor")

\* C28 (as claimed)
\* No page is merged twice: the second holder-accounts request of an
\* aggregation carries the cursor of the first response, and it is not the
\* first request again (a request without cursor, which asks for the first
\* page), also when the first response carries no cursor.
C28_NoPageIsMergedTwice ==
  Len(holder.log) >= 2 =>
    /\ holder.log[2].cursor = cursorOf(1)
    /\ holder.log[2].cursor # holder.log[1].cursor

\* The n-th response of the aggregation is a page with an empty list of
\* token accounts.
emptyPage(n) ==
  LET o == holder.log[n].outcome IN
  /\ o.kind = "response"
  /\ o.body # NotJSON
  /\ Prop(Prop(o.body, "result"), "token_accounts").type = "array"
  /\ Len(Prop(Prop(o.body, "result"), "token_accounts").items) = 0

\* C29
\* An empty page ends the aggregation successfully: the response with an
\* empty holder list is the last of the aggregation, fetchHolderList has
\* returned the records of the pages before it (none when it is the first
\* page), and both cache tiers hold that list under the holder-list key.
C29_EmptyPageEndsAggregation ==
  \A n \in 1..Len(holder.log) :
    emptyPage(n) =>
      LET k == holderListKey(TokenAddress) IN
      /\ n = Len(holder.log)
      /\ holder.pc = "returned"
      /\ holder.ret = materialize(mergePage(<<>>, IF n = 1 THEN <<>> ELSE pageOf(1)))
      /\ n = 1 => holder.ret = Arr(<<>>)
      /\ cache[Self][k] # NoEntry
      /\ cache[Self][k].v = holder.ret
      /\ files[k].type = "file"
      /\ SameValue(files[k].data, holder.ret)
      /\ files[k].expiry = now + 300000

\* C29 witness: a page of two accounts with a cursor, then an empty page: the
\* call has returned the holders of the first page, and they are cached.
C29_Witness ==
  /\ Len(holder.log) = 2
  /\ Len(pageOf(1)) = 2
  /\ cursorOf(1) = Str("c1")
  /\ emptyPage(2)
  /\ holder.pc = "returned"
  /\ Len(holder.ret.items) >= 1
  /\ cache[Self][holderListKey(TokenAddress)].v = holder.ret

----------------------------------------------------------------------------
(* Specification of concurrent fetches: two fetchTokenSecurity calls for    *)
(* the same token, on the same provider or on two providers of one process, *)
(* interleaved at their awaits.  The code between two awaits runs without   *)
(* interruption: a call is one step up to `await this.fetchWithRetry(url)`  *)
(* and one step from its result to the return.                              *)

ConcurrentStepMs == 1000
MaxConcurrentClockSteps == 3

\* What fetchWithRetry ends with: it throws, or it returns a JSON body.
FetchResults ==
  {[kind |-> "thrown", body |-> Undefined],
   [kind |-> "returned", body |-> ErrorBody],
   [kind |-> "returned",
    body |-> DataBody(Obj([f \in {"ownerBalance", "creatorBalance"} |->
                             IF f = "ownerBalance" THEN Num(100) ELSE Num(50)]))],
   [kind |-> "returned", body |-> DataBody(Obj([f \in {"ownerBalance"} |-> Num(7)]))]}

\* fetchTokenSecurity up to its first await, or to its return on a hit.
fetchTokenSecurityCall(p, c, fs, tokenAddress, t) ==
  LET g == getCachedData(c, fs, securityKey(tokenAddress), t)
      fr == [CallIdle EXCEPT !.by = p]
  IN IF g.error # Null
     THEN [f |-> [fr EXCEPT !.pc = "thrown", !.ret = g.error], c |-> g.c, fs |-> g.fs, g |-> g]
     ELSE IF Truthy(g.ret)
     THEN [f |-> [fr EXCEPT !.pc = "returned", !.ret = g.ret], c |-> g.c, fs |-> g.fs, g |-> g]
     ELSE [f |-> [fr EXCEPT !.pc = "await", !.missed = TRUE], c |-> g.c, fs |-> g.fs, g |-> g]

\* fetchTokenSecurity from the result of fetchWithRetry to its return.
fetchTokenSecurityResult(fr, c, fs, tokenAddress, t, result) ==
  IF result.kind = "thrown"
  THEN [f |-> [fr EXCEPT !.pc = "thrown", !.ret = Err(<<"fetchWithRetry">>)], c |-> c, fs |-> fs]
  ELSE IF noDataAvailable(result.body)
  THEN [f |-> [fr EXCEPT !.pc = "thrown", !.ret = Err(<<"No token security data available">>)],
        c |-> c, fs |-> fs]
  ELSE LET security == securityOf(result.body)
           set == setCachedData(c, fs, securityKey(tokenAddress), security, t)
       IN IF set.error # Null
          THEN [f |-> [fr EXCEPT !.pc = "thrown", !.ret = set.error], c |-> set.c, fs |-> set.fs]
          ELSE [f |-> [fr EXCEPT !.pc = "returned", !.ret = security,
                                 !.wrote = [type |-> "set", by |-> fr.by, at |-> t, v |-> security]],
                c |-> set.c, fs |-> set.fs]

InitConcurrent ==
  /\ InitCacheOver({securityKey(TokenAddress)})
  /\ InitRetryVars /\ InitHolderVars /\ InitReportVars /\ InitAnalyticsVars

\* Provider p starts the call c.
CallFetchTokenSecurity(c, p) ==
  /\ calls[c].pc = "idle"
  /\ LET k == securityKey(TokenAddress)
         r == fetchTokenSecurityCall(p, cache[p], files, TokenAddress, now)
     IN /\ calls' = [calls EXCEPT ![c] = r.f]
        /\ cache' = [cache EXCEPT ![p] = r.c]
        /\ files' = r.fs
        /\ got' = [type |-> "get", by |-> p, key |-> k, at |-> now, ret |-> r.g.ret,
                   tier |-> r.g.tier, set |-> lastSet[k],
                   stale |-> (r.g.tier = "memory" /\ ~fresh[p][k])]
        /\ fresh' = [fresh EXCEPT ![p][k] = IF r.g.tier = "file" THEN TRUE ELSE @]
  /\ UNCHANGED <<now, lastSet, retryVars, holderVars, analyticsVars>>
  /\ UNCHANGED <<report, returned, upstream, reported, twitter>>

\* The fetchWithRetry of the call c has ended; the call goes on to its return.
FetchTokenSecurityResult(c, result) ==
  /\ calls[c].pc = "await"
  /\ LET k == securityKey(TokenAddress)
         p == calls[c].by
         r == fetchTokenSecurityResult(calls[c], cache[p], files, TokenAddress, now, result)
     IN /\ calls' = [calls EXCEPT ![c] = r.f]
        /\ cache' = [cache EXCEPT ![p] = r.c]
        /\ files' = r.fs
        /\ lastSet' = IF r.f.wrote = NoCall THEN lastSet
                      ELSE [lastSet EXCEPT ![k] = r.f.wrote]
        /\ fresh' = IF r.f.wrote = NoCall THEN fresh
                    ELSE [q \in Providers |-> [fresh[q] EXCEPT ![k] = (q = p)]]
        /\ got' = NoCall
  /\ UNCHANGED <<now, retryVars, holderVars, analyticsVars>>
  /\ UNCHANGED <<report, returned, upstream, reported, twitter>>

\* Both callers have taken their results.
FetchTokenSecurityTaken ==
  /\ \A c \in Calls : calls[c].pc \in {"returned", "thrown"}
  /\ calls' = NoCalls
  /\ UNCHANGED <<cacheVars, retryVars, holderVars, analyticsVars>>
  /\ UNCHANGED <<report, returned, upstream, reported, twitter>>

\* Time passes while requests are in flight and between calls.
TickOfConcurrent ==
  /\ now < MaxConcurrentClockSteps * ConcurrentStepMs
  /\ now' = now + ConcurrentStepMs
  /\ got' = NoCall
  /\ UNCHANGED <<cache, files, lastSet, fresh, retryVars, holderVars, reportVars, analyticsVars>>

NextConcurrent ==
  \/ \E c \in Calls, p \in Providers : CallFetchTokenSecurity(c, p)
  \/ \E c \in Calls, result \in FetchResults : FetchTokenSecurityResult(c, result)
  \/ FetchTokenSecurityTaken
  \/ TickOfConcurrent

SpecConcurrent == InitConcurrent /\ [][NextConcurrent]_vars

----------------------------------------------------------------------------
(* Claims about concurrent fetches, checked under SpecConcurrent.            *)

\* Both calls missed the cache and have completed.
bothMissedAndCompleted ==
  \A c \in Calls : calls[c].missed /\ calls[c].pc \in {"returned", "thrown"}

\* The calls that wrote to the cache.
writers == {c \in Calls : calls[c].wrote # NoCall}

\* C30
\* Same-key concurrency is last-writer-wins: after two fetchTokenSecurity
\* calls for one token that both missed the cache have completed, in any
\* interleaving, the file of the key holds the data and the expiry of one
\* write, that of the call that wrote last, and the memory tier of each
\* provider that wrote holds the value and the expiry of one write of its
\* own, the last one.
C30_LastWriterWins ==
  (bothMissedAndCompleted /\ writers # {}) =>
    LET k == securityKey(TokenAddress) IN
    /\ \E c \in writers :
         /\ calls[c].wrote = lastSet[k]
         /\ files[k].type = "file"
         /\ SameValue(files[k].data, calls[c].wrote.v)
         /\ files[k].expiry = calls[c].wrote.at + 300000
    /\ \A p \in {calls[c].by : c \in writers} :
         \E c \in writers :
           /\ calls[c].by = p
           /\ lastSet[k].by = p => calls[c].wrote = lastSet[k]
           /\ cache[p][k] # NoEntry
           /\ cache[p][k].v = calls[c].wrote.v
           /\ cache[p][k].t = calls[c].wrote.at + 300000

\* C30 witness: two calls on one provider both missed, the first to be
\* answered wrote one value and the other wrote another value a second later:
\* both tiers hold the second write.
C30_Witness ==
  /\ bothMissedAndCompleted
  /\ writers = Calls
  /\ calls["a"].by = calls["b"].by
  /\ calls["a"].wrote.v # calls["b"].wrote.v
  /\ calls["a"].wrote.at + ConcurrentStepMs = calls["b"].wrote.at
  /\ files[securityKey(TokenAddress)].expiry = calls["b"].wrote.at + 300000
  /\ cache[calls["b"].by][securityKey(TokenAddress)].v = calls["b"].wrote.v

----------------------------------------------------------------------------
(* Claims about the cache writes of the sub-fetches, checked under          *)
(* SpecReport.                                                              *)

\* The cache key of sub-fetch k of the report of TokenAddress.
keyOfSubFetch(k) ==
  CASE k = "security" -> securityKey(TokenAddress)
    [] k = "trade" -> tradeDataKey(TokenAddress)
    [] k = "dex" -> dexScreenerKey(TokenAddress)
    [] k = "holders" -> holderListKey(TokenAddress)

\* The entries of key k in the memory tier of Self and in the files are left
\* as they are by the step.
entriesKept(k) == cache'[Self][k] = cache[Self][k] /\ files'[k] = files[k]

\* No entry of key k is written by the step: each tier keeps what it holds
\* or loses it.
nothingWritten(k) ==
  /\ cache'[Self][k] \in {cache[Self][k], NoEntry}
  /\ files'[k] \in {files[k], NoFile}

\* C31
\* A fetch that fails writes no cache entry: the step that starts
\* fetchTokenSecurity or fetchTokenTradeData on a miss writes nothing under
\* its key, and every step of the fetch from there on that does not end it
\* with data (a failed attempt, a backoff wait, the failure itself) leaves
\* both tiers of the key as they are.
C31_FailedFetchWritesNothing ==
  [][\A k \in {"security", "trade"} :
       /\ (report.pc # k /\ report'.pc = k) => nothingWritten(keyOfSubFetch(k))
       /\ (report.pc = k /\ report'.fetches[k].state # "fetched")
            => entriesKept(keyOfSubFetch(k))]_vars

\* C31 witness: the trade fetch of a report has failed on its upstream,
\* after the security data was fetched and cached: neither tier holds an
\* entry of the trade key.
C31_Witness ==
  /\ report.pc = "done"
  /\ report.fetches.security.state = "fetched"
  /\ report.fetches.trade.state = "failed"
  /\ ~report.fetches.trade.cacheError
  /\ cache[Self][securityKey(TokenAddress)] # NoEntry
  /\ cache[Self][tradeDataKey(TokenAddress)] = NoEntry
  /\ files[tradeDataKey(TokenAddress)] = NoFile

----------------------------------------------------------------------------
(* Claims about the DexScreener fallback, checked under SpecRepeat.          *)

\* C32
\* The DexScreener fallback is never cached: the step in which
\* fetchDexScreenerData takes its fallback for an upstream that failed or
\* gave no pairs leaves both tiers without an entry of its key, and as long
\* as the last DexScreener request made ended in the fallback, no
\* fetchDexScreenerData call is served from the cache.
C32_FallbackIsNotCached ==
  /\ [](returned["dex"].type = "returned" /\ returned["dex"].state = "fallback"
          => report.fetches.dex.state # "cached")
  /\ [][(report.pc = "dex" /\ report'.fetches.dex.state = "fallback")
          => /\ entriesKept(dexScreenerKey(TokenAddress))
             /\ cache'[Self][dexScreenerKey(TokenAddress)] = NoEntry
             /\ files'[dexScreenerKey(TokenAddress)] = NoFile]_vars

\* C32 witness: the DexScreener request of a report ended in the fallback,
\* and the request of the report made after it, 200 s later, was answered
\* with pairs: the second call asked the upstream.
C32_Witness ==
  /\ returned["dex"].type = "returned"
  /\ returned["dex"].state = "fallback"
  /\ returned["dex"].at = 0
  /\ now = ClockStepMs
  /\ report.pc = "done"
  /\ report.fetches.dex.state = "fetched"
  /\ report.fetches.dex.attempts = 1

----------------------------------------------------------------------------
(* Claims about the order of the sub-fetches, checked under SpecReport.      *)

SubFetchOrder == <<"security", "trade", "dex", "holders">>

\* Sub-fetch k of the report has been started: its request is in flight or it
\* has ended.
subFetchStarted(k) ==
  \/ report.fetches[k].state # "none"
  \/ report.fetches[k].attempts > 0
  \/ IF k = "holders"
     THEN report.pc \in {"holders1", "holders2"} \/ holder.pc # "idle" \/ holder.log # <<>>
     ELSE report.pc = k

\* Sub-fetch k has given its data to the report.
subFetchGave(k) == report.fetches[k].state \in {"cached", "fetched", "fallback"}

\* C33
\* getProcessedTokenData performs its sub-fetches one after another in the
\* order security, trade, DEX, holder list: a sub-fetch is started only when
\* every one before it has given its data, requests of two kinds are never
\* in flight together, and after a failed security or trade fetch none of the
\* later sub-fetches has been started or has made a request.
C33_SubFetchesInOrder ==
  /\ \A i, j \in 1..Len(SubFetchOrder) :
       (i < j /\ subFetchStarted(SubFetchOrder[j])) => subFetchGave(SubFetchOrder[i])
  /\ retry.pc \in {"attempt", "wait"} => report.pc = "security"
  /\ holder.pc = "fetch" => report.pc \in {"holders1", "holders2"}
  /\ \A i \in 1..2, j \in 1..Len(SubFetchOrder) :
       (i < j /\ report.fetches[SubFetchOrder[i]].state = "failed") =>
         /\ ~subFetchStarted(SubFetchOrder[j])
         /\ report.pc = "done"

\* C33 witness: the security data was fetched, the trade fetch failed on its
\* one request, and neither a DexScreener nor a holder-accounts request was
\* made.
C33_Witness ==
  /\ report.pc = "done"
  /\ report.fetches.security.state = "fetched"
  /\ report.fetches.trade.state = "failed"
  /\ report.fetches.trade.attempts = 1
  /\ report.fetches.dex = NotFetched
  /\ report.fetches.holders = NotFetched
  /\ holder = HolderIdle

----------------------------------------------------------------------------
(* Claims about the DexScreener flags of the processed data, checked under   *)
(* SpecReport.                                                               *)

\* The pairs of the DEX data a processed record carries.
pairsOf(processed) == Prop(processed.dexScreenerData, "pairs").items

\* The pair has a boosts object whose active count is above zero.
activelyBoosted(pair) ==
  LET active == Prop(Prop(pair, "boosts"), "active")
  IN active.type = "number" /\ active.n > 0

\* C34
\* In every ProcessedTokenData getProcessedTokenData returns,
\* isDexScreenerListed is true exactly when the DEX data it carries has at
\* least one pair, isDexScreenerPaid is true exactly when one of those pairs
\* has boosts.active above zero, and a paid token is a listed one.
C34_DexFlagsFollowPairs ==
  report.processed # Undefined =>
    /\ report.processed.isDexScreenerListed <=> Len(pairsOf(report.processed)) >= 1
    /\ report.processed.isDexScreenerPaid <=>
         \E n \in DOMAIN pairsOf(report.processed) :
           activelyBoosted(pairsOf(report.processed)[n])
    /\ report.processed.isDexScreenerPaid => report.processed.isDexScreenerListed

\* C34 witness: processed data whose one pair has a boosts object with no
\* active boost: listed, not paid.
C34_Witness ==
  /\ report.pc = "done"
  /\ report.processed # Undefined
  /\ Len(pairsOf(report.processed)) = 1
  /\ Prop(Prop(pairsOf(report.processed)[1], "boosts"), "active") = Num(0)
  /\ report.processed.isDexScreenerListed
  /\ ~report.processed.isDexScreenerPaid

----------------------------------------------------------------------------
(* The Twitter interaction client (TwitterInteractionClient): the polling   *)
(* run handleTwitterInteractions and handleTweet.  The code between two     *)
(* awaits is one step.  A tweet is named by its place n on the timeline;    *)
(* its id is the text TweetIdOf(n), later tweets having greater ids.        *)

\* settings.TWITTER_USERNAME
BotTwitterUsername == "bot"
TwitterUsernames == {BotTwitterUsername, "alice"}
\* Texts of tweets: none, one without and one with a mention of the bot.
TweetTexts == {"", "gm", "@bot gm"}
MaxTweets == 2

\* Ids are texts of digits of one length, as Twitter's ids of one period are.
TweetIds == <<"1", "2", "3", "4", "5", "6", "7", "8", "9">>
TweetIdOf(n) == Str(TweetIds[n])
\* a <= b of two id strings: the order of the code units.
stringAtMost(a, b) ==
  (CHOOSE n \in DOMAIN TweetIds : TweetIds[n] = a.s) <=
    (CHOOSE n \in DOMAIN TweetIds : TweetIds[n] = b.s)

\* The members of a set of places, latest first (SearchMode.Latest, and the
\* order of a user's timeline).
latestFirst(S) ==
  [i \in 1..Cardinality(S) |-> CHOOSE x \in S : Cardinality({y \in S : y > x}) = i - 1]

\* searchTweets(`@${botTwitterUsername}`, 20, SearchMode.Latest); the timeline
\* has fewer than 20 tweets.
searchMentions(tweets) ==
  latestFirst({n \in DOMAIN tweets : tweets[n].text = "@bot gm"})
\* getTweets(botTwitterUsername, 20)
getTweets(tweets) ==
  latestFirst({n \in DOMAIN tweets : tweets[n].username = BotTwitterUsername})
\* searchTweets(`to:${botTwitterUsername}`, 20, SearchMode.Latest): the
\* replies to tweets of the bot.
searchReplies(tweets) ==
  latestFirst({n \in DOMAIN tweets :
                 \E m \in DOMAIN tweets : /\ tweets[m].username = BotTwitterUsername
                                          /\ tweets[n].inReplyToStatusId = TweetIdOf(m)})
\* getLatestTweet(botTwitterUsername)
getLatestTweet(tweets) ==
  IF getTweets(tweets) = <<>> THEN Undefined ELSE TweetIdOf(getTweets(tweets)[1])

\* this.lastCheckedTweetId && tweet.id <= this.lastCheckedTweetId
alreadyChecked(tw, n) ==
  Truthy(tw.lastCheckedTweetId) /\ stringAtMost(TweetIdOf(n), tw.lastCheckedTweetId)

\* The catch of handleTwitterInteractions: the run is over, and so is the
\* handleTweet call the error came from.
runCaught(tw) == [tw EXCEPT !.run = RunIdle, !.call = HandleTweetIdle]

\* handleTweet returns.
handleTweetReturned(tw) ==
  [tw EXCEPT !.call.pc = "returned", !.handled = @ \cup {tw.call.tweet}]

\* Mutant: handleTweet without its guard against the bot's own tweets.
handleTweetCall_unguarded(tw, n) ==
  [tw EXCEPT !.call = [HandleTweetIdle EXCEPT !.tweet = n, !.pc = "prepare"]]

\* handleTweet(tweet) up to its first await.
handleTweetCall(tw, n) ==
  LET called == [tw EXCEPT !.call = [HandleTweetIdle EXCEPT !.tweet = n, !.pc = "prepare"]]
  IN IF tw.tweets[n].username = BotTwitterUsername
     THEN handleTweetReturned(called)
     ELSE called

\* handleTweet from ensureUserExists to the shouldRespond completion request.
handleTweetPrepared(tw) ==
  IF tw.tweets[tw.call.tweet].text = ""
  THEN handleTweetReturned(tw)
  ELSE [tw EXCEPT !.call.pc = "shouldRespond", !.call.completions = @ + 1]

\* Answers of the model to the shouldRespond request.
ShouldRespondResponses == {"RESPOND", "Respond.", "IGNORE", "STOP"}
toLowerCase(text) ==
  CASE text = "RESPOND" -> "respond"
    [] text = "Respond." -> "respond."
    [] text = "IGNORE" -> "ignore"
    [] text = "STOP" -> "stop"
\* text.includes("respond") of the lower-case texts above
includesRespond(text) == text \in {"respond", "respond."}

\* A request of the generation loop is sent.
generationRequested(tw) ==
  [tw EXCEPT !.call.pc = "generate", !.call.generated = @ + 1,
             !.call.completions = @ + 1]

\* handleTweet from the shouldRespond answer to the first generation request.
handleTweetShouldRespond(tw, shouldRespondResponse) ==
  IF ~includesRespond(toLowerCase(shouldRespondResponse))
  THEN handleTweetReturned(tw)
  ELSE generationRequested([tw EXCEPT !.call.triesLeft = 3])

\* Answers of the model to a generation request: a text and the JSON block
\* in it, if any.
Reply(user, content) ==
  Obj([f \in {"user", "content", "action"} |->
        CASE f = "user" -> user [] f = "content" -> content [] f = "action" -> Str("NONE")])
GenerationResponses ==
  {[text |-> "lol", block |-> Null],
   [text |-> "as bot", block |-> Reply(Str("bot"), Str("ok"))],
   [text |-> "as alice", block |-> Reply(Str("alice"), Str("ok"))],
   [text |-> "anonymous", block |-> Reply(Undefined, Str("ok"))],
   [text |-> "empty", block |-> Reply(Str("bot"), Str(""))],
   [text |-> "no content", block |-> Obj([f \in {"user"} |-> Str("bot")])],
   [text |-> "numbered", block |-> Reply(Num(5), Str("ok"))]}
\* parseJSONObjectFromText(response): the object of the JSON block, or null.
parseJSONObjectFromText(response) ==
  IF response.block.type = "object" THEN response.block ELSE Null
\* state.senderName: the name of the author of the tweet.
senderName(tw) == tw.tweets[tw.call.tweet].username
\* (parsedResponse?.user as string)?.includes(senderName) throws a TypeError
\* when user is neither absent nor a string (nor an array).
includesThrows(parsedResponse) ==
  Prop(parsedResponse, "user").type \notin {"undefined", "null", "string"}
\* No name of TwitterUsernames is part of another one.
userIncludes(parsedResponse, name) ==
  /\ Prop(parsedResponse, "user").type = "string"
  /\ Prop(parsedResponse, "user").s = name

\* The end of the loop: the fallback, then saveResponseMessage and
\* processActions are awaited.
loopLeft(tw) ==
  [tw EXCEPT !.call.pc = "actions",
             !.call.responseContent =
                IF ~Truthy(@) THEN Obj([f \in {"content", "action"} |->
                                         IF f = "content" THEN Str("") ELSE Str("IGNORE")])
                ELSE @]

\* Mutant: the loop goes on while triesLeft >= 0.
afterGeneration_onceMore(tw, response) ==
  LET parsedResponse == parseJSONObjectFromText(response)
      logged == [tw EXCEPT !.call.unparsed = IF parsedResponse = Null THEN @ + 1 ELSE @]
      again == [logged EXCEPT !.call.triesLeft = @ - 1]
  IN IF includesThrows(parsedResponse) THEN runCaught(logged)
     ELSE IF ~userIncludes(parsedResponse, senderName(tw)) /\ Truthy(parsedResponse)
     THEN loopLeft([logged EXCEPT !.call.responseContent =
                      Obj([f \in {"content", "action"} |-> Prop(parsedResponse, f)])])
     ELSE IF again.call.triesLeft >= 0 THEN generationRequested(again)
     ELSE loopLeft(again)

\* One turn of the loop `for (let triesLeft = 3; triesLeft > 0; triesLeft--)`
\* from the answer of the completion on.
afterGeneration(tw, response) ==
  LET parsedResponse == parseJSONObjectFromText(response)
      logged == [tw EXCEPT !.call.unparsed = IF parsedResponse = Null THEN @ + 1 ELSE @]
      again == [logged EXCEPT !.call.triesLeft = @ - 1]
  IN IF includesThrows(parsedResponse) THEN runCaught(logged)
     ELSE IF ~userIncludes(parsedResponse, senderName(tw)) /\ Truthy(parsedResponse)
     THEN loopLeft([logged EXCEPT !.call.responseContent =
                      Obj([f \in {"content", "action"} |-> Prop(parsedResponse, f)])])
     ELSE IF again.call.triesLeft > 0 THEN generationRequested(again)
     ELSE loopLeft(again)

\* if (responseContent.content) sendTweet(responseContent.content, tweet.id)
afterActions(tw) ==
  IF Truthy(Prop(tw.call.responseContent, "content"))
  THEN [tw EXCEPT !.call.pc = "send", !.call.sent = TRUE,
                  !.sendCalls = @ \cup {tw.call.tweet}]
  ELSE handleTweetReturned(tw)

\* The reply sendTweet posts.
replyTweet(tw) ==
  [username |-> BotTwitterUsername,
   text |-> IF Prop(tw.call.responseContent, "content").type = "string"
            THEN Prop(tw.call.responseContent, "content").s ELSE "",
   inReplyToStatusId |-> TweetIdOf(tw.call.tweet)]

\* The loop over the mentions, from one tweet to the next await.
mentionLoop(tw) ==
  IF tw.run.i > Len(tw.run.mentions) \/ alreadyChecked(tw, tw.run.mentions[tw.run.i])
  THEN [tw EXCEPT !.run.pc = "botTweets", !.call = HandleTweetIdle]
  ELSE handleTweetCall([tw EXCEPT !.run.i = @ + 1], tw.run.mentions[tw.run.i])

\* The loop over the bot's tweets, from one tweet to the next await.
botTweetLoop(tw) ==
  IF tw.run.j > Len(tw.run.botTweets) \/ alreadyChecked(tw, tw.run.botTweets[tw.run.j])
  THEN [tw EXCEPT !.run.pc = "latest"]
  ELSE [tw EXCEPT !.run.pc = "replies"]

\* The loop over the replies, from one reply to the next await.
replyLoop(tw) ==
  LET tweet == tw.run.botTweets[tw.run.j]
      matching == {k \in tw.run.k..Len(tw.run.replies) :
                     tw.tweets[tw.run.replies[k]].inReplyToStatusId = TweetIdOf(tweet)}
  IN IF matching = {}
     THEN botTweetLoop([tw EXCEPT !.run.j = @ + 1, !.run.replies = <<>>, !.run.k = 0,
                                  !.call = HandleTweetIdle])
     ELSE LET k == CHOOSE k \in matching : \A l \in matching : k <= l
          IN handleTweetCall([tw EXCEPT !.run.k = k + 1], tw.run.replies[k])

InitTwitter ==
  InitCacheVars /\ InitRetryVars /\ InitHolderVars /\ InitReportVars /\ InitAnalyticsVars

TwitterStep(tw) == twitter' = tw /\ UNCHANGED <<cacheVars, retryVars, holderVars, analyticsVars, report, returned, upstream, reported, calls>>

\* Somebody, the bot included, posts a tweet, possibly in reply to a tweet
\* of the bot.  Tweets of others that neither mention the bot nor reply to
\* it are left out: no request of the client returns them; so are tweets of
\* the bot without text, which the client treats as those with text.  The client
\* reads the timeline when a request of the run is answered only, so a tweet
\* posted at another time is posted here when the next request is in flight.
Post(username, text, m) ==
  /\ Len(twitter.tweets) < MaxTweets
  /\ twitter.run.pc \in {"idle", "mentions", "botTweets", "replies", "latest"}
  /\ username = BotTwitterUsername \/ text = "@bot gm" \/ m # 0
  /\ username = BotTwitterUsername => text # ""
  /\ m = 0 \/ (m \in DOMAIN twitter.tweets /\ twitter.tweets[m].username = BotTwitterUsername)
  /\ TwitterStep([twitter EXCEPT !.tweets =
       Append(@, [username |-> username, text |-> text,
                  inReplyToStatusId |-> IF m = 0 THEN Undefined ELSE TweetIdOf(m)])])

\* The timer of onReady fires: handleTwitterInteractions starts and searches
\* the mentions.  The runs of the model do not overlap.
HandleTwitterInteractions ==
  /\ twitter.run.pc = "idle"
  /\ TwitterStep([twitter EXCEPT !.run.pc = "mentions",
                                 !.handledEarlier = @ \cup twitter.handled,
                                 !.handled = {}])

\* A request of the run fails: the catch ends the run.
RunRequestFails ==
  /\ twitter.run.pc \in {"mentions", "botTweets", "replies", "latest"}
  /\ TwitterStep(runCaught(twitter))

MentionsFetched ==
  /\ twitter.run.pc = "mentions"
  /\ TwitterStep(mentionLoop([twitter EXCEPT !.run.pc = "mentionLoop",
                                             !.run.mentions = searchMentions(twitter.tweets),
                                             !.run.i = 1]))

callOver == twitter.call.pc \in {"idle", "returned"}

\* handleTweet has returned to the loop over the mentions.
NextMention ==
  /\ twitter.run.pc = "mentionLoop" /\ callOver
  /\ TwitterStep(mentionLoop(twitter))

BotTweetsFetched ==
  /\ twitter.run.pc = "botTweets"
  /\ TwitterStep(botTweetLoop([twitter EXCEPT !.run.pc = "botLoop",
                                              !.run.mentions = <<>>, !.run.i = 0,
                                              !.run.botTweets = getTweets(twitter.tweets),
                                              !.run.j = 1]))

RepliesFetched ==
  /\ twitter.run.pc = "replies"
  /\ TwitterStep(replyLoop([twitter EXCEPT !.run.pc = "replyLoop",
                                           !.run.replies = searchReplies(twitter.tweets),
                                           !.run.k = 1]))

\* handleTweet has returned to the loop over the replies.
NextReply ==
  /\ twitter.run.pc = "replyLoop" /\ callOver
  /\ TwitterStep(replyLoop(twitter))

\* The end of the run: lastCheckedTweetId becomes the id of the bot's latest
\* tweet, if it has one.
LatestFetched ==
  /\ twitter.run.pc = "latest"
  /\ LET latestTweet == getLatestTweet(twitter.tweets)
     IN TwitterStep([twitter EXCEPT !.run = RunIdle,
                                    !.lastCheckedTweetId =
                                       IF Truthy(latestTweet) THEN latestTweet ELSE @])

\* An awaited call of handleTweet outside the try of sendTweet rejects: the
\* error passes to the catch of the run.
HandleTweetThrows ==
  /\ twitter.call.pc \in {"prepare", "shouldRespond", "generate", "actions"}
  /\ TwitterStep(runCaught(twitter))

HandleTweetPrepared ==
  /\ twitter.call.pc = "prepare"
  /\ TwitterStep(handleTweetPrepared(twitter))

ShouldRespondAnswered(shouldRespondResponse) ==
  /\ twitter.call.pc = "shouldRespond"
  /\ TwitterStep(handleTweetShouldRespond(twitter, shouldRespondResponse))

GenerationAnswered(response) ==
  /\ twitter.call.pc = "generate"
  /\ TwitterStep(afterGeneration(twitter, response))

ActionsProcessed ==
  /\ twitter.call.pc = "actions"
  /\ TwitterStep(afterActions(twitter))

\* sendTweet succeeds: the reply is on the timeline.
TweetSent ==
  /\ twitter.call.pc = "send"
  /\ Len(twitter.tweets) < MaxTweets
  /\ TwitterStep(handleTweetReturned([twitter EXCEPT !.tweets = Append(@, replyTweet(twitter))]))

\* sendTweet or the write of the debug file throws: the error is logged.
TweetNotSent ==
  /\ twitter.call.pc = "send"
  /\ TwitterStep(handleTweetReturned(twitter))

NextTwitter ==
  \/ \E u \in TwitterUsernames, text \in TweetTexts, m \in 0..MaxTweets : Post(u, text, m)
  \/ HandleTwitterInteractions
  \/ RunRequestFails
  \/ MentionsFetched
  \/ NextMention
  \/ BotTweetsFetched
  \/ RepliesFetched
  \/ NextReply
  \/ LatestFetched
  \/ HandleTweetThrows
  \/ HandleTweetPrepared
  \/ \E r \in ShouldRespondResponses : ShouldRespondAnswered(r)
  \/ \E r \in GenerationResponses : GenerationAnswered(r)
  \/ ActionsProcessed
  \/ TweetSent
  \/ TweetNotSent

SpecTwitter == InitTwitter /\ [][NextTwitter]_vars

----------------------------------------------------------------------------
(* Claims about the Twitter interaction client, checked under SpecTwitter.   *)

\* C35
\* Across polling cycles handleTweet is invoked at most once for a tweet: no
\* tweet handled in one run of handleTwitterInteractions is handled again in
\* a later run.
C35_HandledOncePerTweet ==
  twitter.call.pc # "idle" => twitter.call.tweet \notin twitter.handledEarlier

\* The tweet the handleTweet call is about.
calledFor == twitter.tweets[twitter.call.tweet]

\* C36
\* handleTweet makes at most 3 generation requests for a tweet; when none of
\* the answers parses, the response is the content "" with the action IGNORE;
\* and when the content of the final response is empty, sendTweet is not
\* called.
C36_ThreeTriesThenIgnore ==
  /\ twitter.call.generated <= 3
  /\ twitter.call.unparsed <= twitter.call.generated
  /\ (/\ twitter.call.pc \in {"actions", "send", "returned"}
      /\ twitter.call.generated > 0
      /\ twitter.call.unparsed = twitter.call.generated)
       => /\ twitter.call.generated = 3
          /\ Prop(twitter.call.responseContent, "content") = Str("")
          /\ Prop(twitter.call.responseContent, "action") = Str("IGNORE")
  /\ (/\ twitter.call.pc \in {"actions", "send", "returned"}
      /\ twitter.call.generated > 0
      /\ Prop(twitter.call.responseContent, "content") \in {Str(""), Undefined, Null})
       => /\ ~twitter.call.sent
          /\ twitter.call.pc # "send"

\* C36 witness: three answers without a JSON block, the fallback, and the call
\* has returned without a sendTweet.
C36_Witness ==
  /\ twitter.call.pc = "returned"
  /\ twitter.call.generated = 3
  /\ twitter.call.unparsed = 3
  /\ twitter.call.responseContent =
       Obj([f \in {"content", "action"} |-> IF f = "content" THEN Str("") ELSE Str("IGNORE")])
  /\ ~twitter.call.sent
  /\ twitter.sendCalls = {}

\* C37
\* For a tweet whose username is the bot's, handleTweet returns before any
\* completion request, and sendTweet is never called for such a tweet.
C37_NoReplyToOwnTweets ==
  /\ (twitter.call.pc # "idle" /\ calledFor.username = BotTwitterUsername)
       => /\ twitter.call.pc = "returned"
          /\ twitter.call.completions = 0
          /\ ~twitter.call.sent
  /\ \A n \in twitter.sendCalls : twitter.tweets[n].username # BotTwitterUsername

\* C37 witness: the run has called handleTweet for a tweet of the bot that
\* mentions the bot, and after it for a tweet of another user, which was
\* answered.
C37_Witness ==
  /\ \E n \in twitter.handled :
       /\ twitter.tweets[n].username = BotTwitterUsername
       /\ twitter.tweets[n].text = "@bot gm"
  /\ twitter.call.pc = "returned"
  /\ calledFor.username = BotTwitterUsername
  /\ twitter.sendCalls # {}

====
